---- MODULE Spec2Model ----
(***************************************************************************)
(* VeilCast backend: the poll phase function, the State Repository in its  *)
(* two implementations (InMemoryStore, PgStore), the commit / reveal /     *)
(* resolve request handlers, the ledger event indexer and the reveal-sync  *)
(* reconciliation tick.                                                    *)
(*                                                                         *)
(* A request handler is a process in a request slot.  Its checks up to the  *)
(* store call that records its effect are one step; the lookup and the     *)
(* insert of record_commit and record_vote are separate steps, as the      *)
(* stores release their locks (or end their statement) between them.  The  *)
(* steps of concurrent requests, indexer events and the clock interleave   *)
(* (Spec); the reveal-sync tick is followed on its own (SpecSync).         *)
(***************************************************************************)
EXTENDS Integers, Sequences, FiniteSets, TLC

\* ---------------------------------------------------------------- bounds
MaxTime == 2
MaxPhaseTime == 4
MaxPending == 25
MaxTicks == 2
MaxPolls == 1
MaxCommits == 2
MaxVotes == 2
MaxTotalVotes == 1

\* ------------------------------------------------------ program constants
REVEAL_BATCH_SIZE == 20
SYNC_QUERY_LIMIT == 200
XP_CORRECT == 20
XP_PARTICIPATION == 5
NUM_OPTIONS == 2

VARIABLES
    store,            \* which PollStore implementation the process runs on
    now,              \* the wall clock read by Utc::now()
    polls,            \* poll_id -> PollRecord
    poll_members,     \* poll_id -> frozen member snapshot
    members,          \* registered member identities
    poll_secrets,     \* the PollSecret rows: (poll_id, identity_secret, secret)
    commits,          \* Vec<StoredCommitRecord> / table commitments
    commit_seq,       \* next commitment id
    synced_commits,   \* ids of commitments with onchain_submitted = true
    votes,            \* Vec<StoredVoteRecord> / table votes
    vote_nullifiers,  \* InMemoryStore::vote_nullifiers
    user_stats,       \* identity_secret -> UserStatsRecord
    poll_seq,         \* last value of the polls id sequence (PgStore)
    req,              \* request slot -> the handler running in it
    sync,             \* the reveal-sync task: position and locals of its tick
    runs,             \* per tick: what it queried and which submissions it made
    indexer           \* the indexer task: position of its loop, errors logged

vars == <<store, now, polls, poll_members, members, poll_secrets, commits,
          commit_seq, synced_commits, votes, vote_nullifiers, user_stats,
          poll_seq, req, sync, runs, indexer>>

Stores == {"InMemoryStore", "PgStore"}
Users == {"alice"}
Slots == {1, 2}
Nullifiers == {"n1"}
\* Choices a request can carry: the options and one value past them.
Choices == 0 .. NUM_OPTIONS
\* Choices of revealed votes and ledger events.
Options == 0 .. NUM_OPTIONS - 1

\* Option<T>: None is the empty set, Some(x) the singleton.
None == {}
Some(x) == {x}

Min(a, b) == IF a <= b THEN a ELSE b

Put(f, k, v) == [x \in (DOMAIN f) \cup {k} |-> IF x = k THEN v ELSE f[x]]

EmptyMap == [x \in {} |-> {}]

\* The first n elements of a sequence (Vec::drain(0..n), LIMIT n).
Take(s, n) == SubSeq(s, 1, Min(n, Len(s)))

Drop(s, n) == SubSeq(s, Min(n, Len(s)) + 1, Len(s))

SeqToSet(s) == {s[i] : i \in 1 .. Len(s)}

\* ------------------------------------------------------------ types.rs
\* Mutant of from_times: the Reveal and Commit branches swapped.
from_times_swapped(t, commit_end, reveal_end, resolved) ==
    IF resolved \/ t >= reveal_end THEN "Resolved"
    ELSE IF t >= commit_end THEN "Commit"
    ELSE "Reveal"

\* Mutant of from_times: the poll is still open at reveal_end itself.
from_times_late(t, commit_end, reveal_end, resolved) ==
    IF resolved \/ t > reveal_end THEN "Resolved"
    ELSE IF t >= commit_end THEN "Reveal"
    ELSE "Commit"

from_times(t, commit_end, reveal_end, resolved) ==
    IF resolved \/ t >= reveal_end THEN "Resolved"
    ELSE IF t >= commit_end THEN "Reveal"
    ELSE "Commit"

PhaseRank(ph) ==
    CASE ph = "Commit" -> 0
      [] ph = "Reveal" -> 1
      [] ph = "Resolved" -> 2

\* to_response: the phase a read of poll p reports at the current clock.
PhaseOf(p) ==
    from_times(now, polls[p].commit_phase_end, polls[p].reveal_phase_end,
               polls[p].resolved)

\* ------------------------------------------------------------ records
\* PollRecord as create_poll_with_id and upsert_poll_from_chain build it.
\* hash_members: "0x" and the hex digest of the member list.
hash_members(ms) == [fmt |-> "hex", of |-> ms]

\* The decimal string U256's Display gives for the number a root denotes
\* (parse_field_u256 reads both forms).
to_decimal(root) == [root EXCEPT !.fmt = "dec"]

\* n is options.len(); vote_counts is vec![0; options.len()].
NewPollRecordN(n, commit_end, reveal_end, owner) ==
    [ options |-> n,
      membership_root |-> hash_members({}),
      commit_phase_end |-> commit_end,
      reveal_phase_end |-> reveal_end,
      owner |-> owner,
      reveal_tx_hash |-> "",
      correct_option |-> None,
      resolved |-> FALSE,
      commit_sync_completed |-> FALSE,
      vote_counts |-> [i \in 0 .. n - 1 |-> 0] ]

NewPollRecord(commit_end, reveal_end, owner) ==
    NewPollRecordN(NUM_OPTIONS, commit_end, reveal_end, owner)

\* derive_identity_secret: a hash of salt and username, injective on Users.
derive_identity_secret(u) == <<"sha256", u>>

\* generate_secret draws a random field element: the values it returns to the
\* requests followed here.
Secrets == {"k1"}

PollSecret(p, id, sec) == [poll_id |-> p, identity_secret |-> id, secret |-> sec]

\* A secret minted before the first step: one value per key.
IssuedSecret(p, id) == PollSecret(p, id, <<"secret", p, id>>)

has_secret(rows, p, id) ==
    \E r \in rows : r.poll_id = p /\ r.identity_secret = id

\* Mutant of insert_poll_secret: a conflicting row is replaced.
insert_poll_secret_replace(rows, p, id, sec) ==
    {r \in rows : ~(r.poll_id = p /\ r.identity_secret = id)}
        \cup {PollSecret(p, id, sec)}

\* INSERT INTO poll_secrets ... ON CONFLICT (poll_id, identity_secret) DO
\* NOTHING; InMemoryStore inserts under the write lock it looked the key up
\* with, and only when the key was absent.
insert_poll_secret(rows, p, id, sec) ==
    IF has_secret(rows, p, id) THEN rows ELSE rows \cup {PollSecret(p, id, sec)}

\* A request slot: the handler running in it, its position, its arguments, the
\* phase of the poll it read (from its locals poll and now) and its response.
IdleReq == [op |-> "idle", pc |-> "idle", poll_id |-> 0, user |-> "",
            choice |-> 0, nullifier |-> "", secret_ok |-> FALSE,
            phase |-> "", result |-> "", secret |-> "", body |-> <<>>]

\* The indexer task: its position, the errors it has logged, and the tier
\* PgStore::bump_user_stats has computed and not yet written.
IdleIndexer == [pc |-> "running", errors |-> 0, tier_write |-> {}]

\* The task spawn_reveal_sync spawns for the run at startup: its position,
\* the locals of its sync_reveals_once, what it queried and submitted.
IdleStartup == [pc |-> "idle", by_poll |-> EmptyMap, poll_id |-> 0,
                items |-> <<>>, pending |-> <<>>, calls |-> <<>>]

\* The timer task: its position in the loop and the locals of its tick, the
\* clock reading at which ticker.tick() returns next (the first tick of a
\* tokio interval completes at once), the ticks it has ended; with it the
\* startup task.
IdleSync == [pc |-> "idle", by_poll |-> EmptyMap, poll_id |-> 0,
             items |-> <<>>, ticks |-> 0, deadline |-> 0,
             startup |-> IdleStartup]

\* ------------------------------------------------------------- clock
AdvanceClock(limit) ==
    /\ now < limit
    /\ now' = now + 1
    /\ UNCHANGED <<store, polls, poll_members, members, poll_secrets, commits,
                   commit_seq, synced_commits, votes, vote_nullifiers,
                   user_stats, poll_seq, req, sync, runs, indexer>>

\* ------------------------------------------------- phase function alone
\* One stored poll with arbitrary end times and resolved flag (the indexer
\* stores whatever the ledger emitted); only the clock moves.
InitPhase ==
    /\ store \in Stores
    /\ now = 0
    /\ \E ce \in 0 .. MaxPhaseTime, re \in 0 .. MaxPhaseTime, r \in BOOLEAN :
          polls = Put(EmptyMap, 1, [NewPollRecord(ce, re, "") EXCEPT !.resolved = r])
    /\ poll_members = EmptyMap
    /\ members = {}
    /\ poll_secrets = {}
    /\ commits = <<>>
    /\ commit_seq = 0
    /\ synced_commits = {}
    /\ votes = <<>>
    /\ vote_nullifiers = {}
    /\ user_stats = EmptyMap
    /\ poll_seq = 0
    /\ req = [s \in Slots |-> IdleReq]
    /\ sync = IdleSync
    /\ runs = <<>>
    /\ indexer = IdleIndexer

NextPhase == AdvanceClock(MaxPhaseTime)

SpecPhase == InitPhase /\ [][NextPhase]_vars

\* C8: for fixed commit_end < reveal_end and a fixed resolved flag the phase
\* never moves backwards in Commit < Reveal < Resolved as the clock advances.
PhaseMonotonic ==
    [][\A p \in DOMAIN polls :
          (polls[p].commit_phase_end < polls[p].reveal_phase_end /\ polls' = polls)
              => PhaseRank(PhaseOf(p)') >= PhaseRank(PhaseOf(p))]_vars

\* A poll with commit_end < reveal_end that has been seen in Commit is now in
\* Reveal: the clock has carried it across a phase boundary.
PhaseMonotonicWitness ==
    \E p \in DOMAIN polls :
        /\ polls[p].commit_phase_end < polls[p].reveal_phase_end
        /\ 0 < polls[p].commit_phase_end
        /\ ~polls[p].resolved
        /\ PhaseOf(p) = "Reveal"
        /\ now + 1 >= polls[p].reveal_phase_end

\* C24: for every clock reading, pair of end times (in either order) and
\* resolved flag, the phase is Resolved iff resolved or now >= reveal_end,
\* Reveal iff not resolved and commit_end <= now < reveal_end, and Commit iff
\* not resolved and now is before both ends.
PhaseTable ==
    \A p \in DOMAIN polls :
        LET ce == polls[p].commit_phase_end
            re == polls[p].reveal_phase_end
            r == polls[p].resolved
        IN /\ (PhaseOf(p) = "Resolved") <=> (r \/ now >= re)
           /\ (PhaseOf(p) = "Reveal") <=> (~r /\ ce <= now /\ now < re)
           /\ (PhaseOf(p) = "Commit") <=> (~r /\ now < ce /\ now < re)

\* An unresolved poll read at its reveal_end exactly, with commit_end before
\* it: the boundary at which Reveal gives way to Resolved.
PhaseTableWitness ==
    \E p \in DOMAIN polls :
        /\ ~polls[p].resolved
        /\ 0 < polls[p].commit_phase_end
        /\ polls[p].commit_phase_end < polls[p].reveal_phase_end
        /\ now = polls[p].reveal_phase_end
        /\ PhaseOf(p) = "Resolved"

\* ------------------------------------------------ repo.rs: sync queries
InWindow(p, t) ==
    /\ p \in DOMAIN polls
    /\ polls[p].commit_phase_end <= t
    /\ polls[p].reveal_phase_end > t

\* Mutant of commits_to_sync: the onchain_submitted / synced filter is lost.
commits_to_sync_unfiltered(t, limit) ==
    Take(SelectSeq(commits, LAMBDA c : InWindow(c.poll_id, t)), limit)

\* InMemoryStore skips synced commits and polls outside their reveal window;
\* PgStore also skips polls already marked commit_sync_completed.
commits_to_sync(t, limit) ==
    IF store = "InMemoryStore"
    THEN Take(SelectSeq(commits, LAMBDA c :
                  c.id \notin synced_commits /\ InWindow(c.poll_id, t)), limit)
    ELSE Take(SelectSeq(commits, LAMBDA c :
                  /\ InWindow(c.poll_id, t)
                  /\ ~polls[c.poll_id].commit_sync_completed
                  /\ c.id \notin synced_commits), limit)

poll_has_pending_commits(p) ==
    \E i \in 1 .. Len(commits) :
        commits[i].poll_id = p /\ commits[i].id \notin synced_commits

\* polls after set_reveal_tx_hash(p, tx): both stores also set
\* commit_sync_completed.
set_reveal_tx_hash(ps, p, tx) ==
    IF p \in DOMAIN ps
    THEN [ps EXCEPT ![p].reveal_tx_hash = tx, ![p].commit_sync_completed = TRUE]
    ELSE ps

mark_poll_sync_complete(ps, p) ==
    IF p \in DOMAIN ps
    THEN [ps EXCEPT ![p].commit_sync_completed = TRUE]
    ELSE ps

\* Mutant of mark_polls_without_pending_commits: only polls still in their
\* reveal window are marked.
mark_polls_in_window(ps, synced, t) ==
    [p \in DOMAIN ps |->
        IF /\ ps[p].commit_phase_end <= t
           /\ ps[p].reveal_phase_end > t
           /\ ~ps[p].commit_sync_completed
           /\ ~\E i \in 1 .. Len(commits) :
                  commits[i].poll_id = p /\ commits[i].id \notin synced
        THEN [ps[p] EXCEPT !.commit_sync_completed = TRUE]
        ELSE ps[p]]

\* synced is the set of synced commit ids the scan sees.
mark_polls_without_pending_commits(ps, synced, t) ==
    [p \in DOMAIN ps |->
        IF /\ ps[p].commit_phase_end <= t
           /\ ~ps[p].commit_sync_completed
           /\ ~\E i \in 1 .. Len(commits) :
                  commits[i].poll_id = p /\ commits[i].id \notin synced
        THEN [ps[p] EXCEPT !.commit_sync_completed = TRUE]
        ELSE ps[p]]

\* ------------------------------------------- main.rs: sync_reveals_once
\* Mutant of Chunk: the batch bound is off by one.
ChunkOffByOne(items) == Take(items, REVEAL_BATCH_SIZE + 1)

\* items.drain(0..items.len().min(REVEAL_BATCH_SIZE))
Chunk(items) == Take(items, REVEAL_BATCH_SIZE)

GroupByPoll(pending) ==
    [p \in {pending[i].poll_id : i \in 1 .. Len(pending)} |->
        SelectSeq(pending, LAMBDA c : c.poll_id = p)]

Without(f, k) == [x \in (DOMAIN f) \ {k} |-> f[x]]

CommitIds(items) == [i \in 1 .. Len(items) |-> items[i].id]

\* What the log keeps of a queried row: its id and its poll.
SyncRows(items) ==
    [i \in 1 .. Len(items) |-> [id |-> items[i].id, poll_id |-> items[i].poll_id]]

LogCall(call) ==
    [runs EXCEPT ![Len(runs)].calls = Append(runs[Len(runs)].calls, call)]

\* commits_to_sync(Utc::now(), 200) and the grouping by poll_id.
SyncStart ==
    /\ sync.pc = "idle"
    /\ sync.ticks < MaxTicks
    /\ LET pending == commits_to_sync(now, SYNC_QUERY_LIMIT)
           grouped == GroupByPoll(pending)
       IN /\ sync' = [sync EXCEPT !.pc = IF DOMAIN grouped = {} THEN "final" ELSE "poll",
                                  !.by_poll = grouped,
                                  !.items = <<>>]
          /\ runs' = Append(runs, [now |-> now, pending |-> SyncRows(pending),
                                   calls |-> <<>>])
    /\ UNCHANGED <<store, now, polls, poll_members, members, poll_secrets,
                   commits, commit_seq, synced_commits, votes, vote_nullifiers,
                   user_stats, poll_seq, req, indexer>>

\* for (poll_id, mut items) in by_poll: the HashMap yields the polls in any
\* order.
SyncNextPoll ==
    /\ sync.pc = "poll"
    /\ \E p \in DOMAIN sync.by_poll :
          sync' = [sync EXCEPT !.pc = "batch", !.poll_id = p,
                               !.items = sync.by_poll[p],
                               !.by_poll = Without(sync.by_poll, p)]
    /\ UNCHANGED <<store, now, polls, poll_members, members, poll_secrets,
                   commits, commit_seq, synced_commits, votes, vote_nullifiers,
                   user_stats, poll_seq, req, runs, indexer>>

\* Mutant of SyncSubmit: the items of the chunk are marked whatever the
\* submission returned.
SyncSubmitMarkAll(outcome) ==
    /\ sync.pc = "batch"
    /\ sync.items # <<>>
    /\ LET chunk == Chunk(sync.items)
           rest == Drop(sync.items, Len(chunk))
           ok == outcome # "err"
       IN /\ runs' = LogCall([poll_id |-> sync.poll_id, ids |-> CommitIds(chunk),
                              ok |-> ok, tx |-> outcome = "ok_tx"])
          /\ sync' = [sync EXCEPT !.items = rest,
                                  !.pc = IF ok /\ rest # <<>> THEN "batch" ELSE "after"]
          /\ synced_commits' = synced_commits \cup {chunk[i].id : i \in 1 .. Len(chunk)}
          /\ polls' = IF outcome = "ok_tx"
                      THEN set_reveal_tx_hash(polls, sync.poll_id, "0xtx")
                      ELSE polls
    /\ UNCHANGED <<store, now, poll_members, members, poll_secrets, commits,
                   commit_seq, votes, vote_nullifiers, user_stats, poll_seq, req,
                   indexer>>

\* Mutant of SyncSubmit: a failed submission abandons the remaining polls of
\* the tick as well.
SyncSubmitAbort(outcome) ==
    /\ sync.pc = "batch"
    /\ sync.items # <<>>
    /\ LET chunk == Chunk(sync.items)
           rest == Drop(sync.items, Len(chunk))
           ok == outcome # "err"
       IN /\ runs' = LogCall([poll_id |-> sync.poll_id, ids |-> CommitIds(chunk),
                              ok |-> ok, tx |-> outcome = "ok_tx"])
          /\ sync' = [sync EXCEPT !.items = rest,
                                  !.by_poll = IF ok THEN @ ELSE EmptyMap,
                                  !.pc = IF ok /\ rest # <<>> THEN "batch" ELSE "after"]
          /\ synced_commits' = IF ok
                               THEN synced_commits \cup {chunk[i].id : i \in 1 .. Len(chunk)}
                               ELSE synced_commits
          /\ polls' = IF outcome = "ok_tx"
                      THEN set_reveal_tx_hash(polls, sync.poll_id, "0xtx")
                      ELSE polls
    /\ UNCHANGED <<store, now, poll_members, members, poll_secrets, commits,
                   commit_seq, votes, vote_nullifiers, user_stats, poll_seq, req,
                   indexer>>

\* One batch: submit_batch_reveal returns Ok(None), Ok(Some(tx)) or Err.  On
\* Ok every item of the chunk is marked synced and a returned tx is stored
\* with set_reveal_tx_hash; on Err the loop over this poll's items breaks.
SyncSubmit(outcome) ==
    /\ sync.pc = "batch"
    /\ sync.items # <<>>
    /\ LET chunk == Chunk(sync.items)
           rest == Drop(sync.items, Len(chunk))
           ok == outcome # "err"
       IN /\ runs' = LogCall([poll_id |-> sync.poll_id, ids |-> CommitIds(chunk),
                              ok |-> ok, tx |-> outcome = "ok_tx"])
          /\ sync' = [sync EXCEPT !.items = rest,
                                  !.pc = IF ok /\ rest # <<>> THEN "batch" ELSE "after"]
          /\ synced_commits' = IF ok
                               THEN synced_commits \cup {chunk[i].id : i \in 1 .. Len(chunk)}
                               ELSE synced_commits
          /\ polls' = IF outcome = "ok_tx"
                      THEN set_reveal_tx_hash(polls, sync.poll_id, "0xtx")
                      ELSE polls
    /\ UNCHANGED <<store, now, poll_members, members, poll_secrets, commits,
                   commit_seq, votes, vote_nullifiers, user_stats, poll_seq, req,
                   indexer>>

\* if !poll_has_pending_commits(poll_id) { mark_poll_sync_complete(poll_id) }
SyncAfterPoll ==
    /\ sync.pc = "after"
    /\ polls' = IF ~poll_has_pending_commits(sync.poll_id)
                THEN mark_poll_sync_complete(polls, sync.poll_id)
                ELSE polls
    /\ sync' = [sync EXCEPT !.pc = IF DOMAIN sync.by_poll = {} THEN "final" ELSE "poll",
                            !.items = <<>>]
    /\ UNCHANGED <<store, now, poll_members, members, poll_secrets, commits,
                   commit_seq, synced_commits, votes, vote_nullifiers,
                   user_stats, poll_seq, req, runs, indexer>>

\* mark_polls_without_pending_commits(Utc::now()) ends the tick.
SyncFinish ==
    /\ sync.pc = "final"
    /\ polls' = mark_polls_without_pending_commits(polls, synced_commits, now)
    /\ sync' = [sync EXCEPT !.pc = "idle", !.ticks = sync.ticks + 1]
    /\ UNCHANGED <<store, now, poll_members, members, poll_secrets, commits,
                   commit_seq, synced_commits, votes, vote_nullifiers,
                   user_stats, poll_seq, req, runs, indexer>>

\* ------------------------------------------- the reconciliation tick alone
ZeroStats(name) ==
    [username |-> name, xp |-> 0, total_votes |-> 0, correct_votes |-> 0,
     tier |-> "Seedling"]

\* The first id create_poll hands out: polls.len() = 0 in memory, the first
\* value of the BIGSERIAL sequence in Postgres.
FirstPollId(st) == IF st = "InMemoryStore" THEN 0 ELSE 1

\* The ids create_poll can hand out to MaxPolls polls.
PollIds == FirstPollId(store) .. FirstPollId(store) + MaxPolls - 1

\* The record create_poll stores for a poll of NUM_OPTIONS options when ms
\* are the registered members.
CreatedPoll(commit_end, reveal_end, owner, ms) ==
    [NewPollRecord(commit_end, reveal_end, owner)
        EXCEPT !.membership_root = IF store = "InMemoryStore" THEN hash_members(ms)
                                   ELSE to_decimal(hash_members(ms))]

\* A store in which n members have committed on one poll during its commit
\* phase and nothing has been submitted yet; no request is in flight and no
\* commitment is recorded later.
InitSync ==
    /\ store \in Stores
    /\ now = 0
    /\ \E n \in 0 .. MaxPending :
        LET ids == {derive_identity_secret(i) : i \in 1 .. n}
            p == FirstPollId(store)
        IN /\ polls = Put(EmptyMap, p, CreatedPoll(1, 2, "alice", ids))
           /\ poll_members = Put(EmptyMap, p, ids)
           /\ members = ids
           /\ poll_secrets = {IssuedSecret(p, id) : id \in ids}
           /\ commits = [i \in 1 .. n |->
                            [id |-> i - 1, poll_id |-> p,
                             identity_secret |-> derive_identity_secret(i),
                             choice |-> i % NUM_OPTIONS]]
           /\ commit_seq = n
           /\ user_stats = [id \in ids |-> ZeroStats(id[2])]
           /\ poll_seq = p
    /\ synced_commits = {}
    /\ votes = <<>>
    /\ vote_nullifiers = {}
    /\ req = [s \in Slots |-> IdleReq]
    /\ sync = IdleSync
    /\ runs = <<>>
    /\ indexer = IdleIndexer

NextSync ==
    \/ AdvanceClock(MaxTime)
    \/ SyncStart
    \/ SyncNextPoll
    \/ \E outcome \in {"ok", "ok_tx", "err"} : SyncSubmit(outcome)
    \/ SyncAfterPoll
    \/ SyncFinish

SpecSync == InitSync /\ [][NextSync]_vars

\* The runs that have ended.
FinishedRuns ==
    {k \in 1 .. Len(runs) : k < Len(runs) \/ sync.pc = "idle"}

CallsFor(r, p) == SelectSeq(r.calls, LAMBDA c : c.poll_id = p)

PendingFor(r, p) == SelectSeq(r.pending, LAMBDA c : c.poll_id = p)

AllOk(r) == \A i \in 1 .. Len(r.calls) : r.calls[i].ok

RECURSIVE Concat(_)
Concat(ss) == IF ss = <<>> THEN <<>> ELSE Head(ss) \o Concat(Tail(ss))

CeilDiv(n, d) == (n + d - 1) \div d

\* C5: a tick over 25 pending commitments of one poll whose first submission
\* succeeds and whose second fails leaves exactly the first 20 synced and the
\* poll not marked commit_sync_completed, with or without a transaction id.
PartialFailureKeepsPollOpen ==
    \A k \in FinishedRuns :
        LET r == runs[k]
        IN (/\ k = Len(runs)
            /\ Len(r.pending) = 25
            /\ \A i \in 1 .. 25 : r.pending[i].poll_id = r.pending[1].poll_id
            /\ Len(r.calls) = 2
            /\ r.calls[1].ok
            /\ ~r.calls[2].ok)
           => /\ synced_commits = {r.pending[i].id : i \in 1 .. 20}
              /\ ~polls[r.pending[1].poll_id].commit_sync_completed

\* C6: a tick all of whose submissions succeed makes, for each poll,
\* ceil(n / 20) calls of at most 20 items each, the calls carry the poll's
\* pending commitments once each in order, and all of them are synced after.
BatchesCoverPending ==
    \A k \in FinishedRuns :
        LET r == runs[k]
        IN AllOk(r) =>
            \A p \in {r.pending[i].poll_id : i \in 1 .. Len(r.pending)} :
                LET cs == CallsFor(r, p)
                    want == CommitIds(PendingFor(r, p))
                IN /\ Len(cs) = CeilDiv(Len(want), REVEAL_BATCH_SIZE)
                   /\ \A i \in 1 .. Len(cs) : Len(cs[i].ids) <= REVEAL_BATCH_SIZE
                   /\ Concat([i \in 1 .. Len(cs) |-> cs[i].ids]) = want
                   /\ SeqToSet(want) \subseteq synced_commits

\* A finished tick that had 25 pending commitments and submitted them in two
\* successful calls of 20 and 5.
BatchesCoverPendingWitness ==
    \E k \in FinishedRuns :
        /\ Len(runs[k].pending) = 25
        /\ AllOk(runs[k])
        /\ Len(runs[k].calls) = 2
        /\ Len(runs[k].calls[1].ids) = 20
        /\ Len(runs[k].calls[2].ids) = 5

tier_for_xp(xp) ==
    IF xp >= 1500 THEN "Mythic Prophet"
    ELSE IF xp >= 900 THEN "Master Oracle"
    ELSE IF xp >= 600 THEN "Gold Seer"
    ELSE IF xp >= 350 THEN "Silver Sage"
    ELSE IF xp >= 150 THEN "Bronze Adept"
    ELSE IF xp >= 50 THEN "Apprentice"
    ELSE "Seedling"

bump_user_stats_overwrite(stats, id, correct) ==
    LET present == id \in DOMAIN stats
        base == IF present THEN stats[id] ELSE ZeroStats(id)
        xp == IF correct THEN XP_CORRECT ELSE base.xp + XP_PARTICIPATION
        bumped == [base EXCEPT !.xp = xp,
                               !.total_votes = @ + 1,
                               !.correct_votes = @ + (IF correct THEN 1 ELSE 0),
                               !.tier = tier_for_xp(xp)]
    IN IF store = "PgStore" /\ ~present THEN stats ELSE Put(stats, id, bumped)

bump_user_stats_flat(stats, id, correct) ==
    LET present == id \in DOMAIN stats
        base == IF present THEN stats[id] ELSE ZeroStats(id)
        xp == base.xp + XP_PARTICIPATION
        bumped == [base EXCEPT !.xp = xp,
                               !.total_votes = @ + 1,
                               !.correct_votes = @ + (IF correct THEN 1 ELSE 0),
                               !.tier = tier_for_xp(xp)]
    IN IF store = "PgStore" /\ ~present THEN stats ELSE Put(stats, id, bumped)

\* bump_user_stats_local creates a missing entry (named after the identity);
\* PgStore::bump_user_stats updates the row only if it exists.
bump_user_stats(stats, id, correct) ==
    LET present == id \in DOMAIN stats
        base == IF present THEN stats[id] ELSE ZeroStats(id)
        xp == base.xp + (IF correct THEN XP_CORRECT ELSE XP_PARTICIPATION)
        bumped == [base EXCEPT !.xp = xp,
                               !.total_votes = @ + 1,
                               !.correct_votes = @ + (IF correct THEN 1 ELSE 0),
                               !.tier = tier_for_xp(xp)]
    IN IF store = "PgStore" /\ ~present THEN stats ELSE Put(stats, id, bumped)

CommitsOf(p) == SelectSeq(commits, LAMBDA c : c.poll_id = p)

RECURSIVE apply_poll_results(_, _, _)
\* One bump per commitment of the poll, in storage order.
apply_poll_results(stats, cs, correct_option) ==
    IF cs = <<>> THEN stats
    ELSE apply_poll_results(
             bump_user_stats(stats, Head(cs).identity_secret,
                             Head(cs).choice = correct_option),
             Tail(cs), correct_option)

\* The vote_counts finalize_poll_results writes: one count per commitment
\* whose choice indexes an option.
CommitCounts(p, n) ==
    [i \in 0 .. n - 1 |->
        Cardinality({k \in 1 .. Len(commits) :
                        commits[k].poll_id = p /\ commits[k].choice = i})]

\* polls after resolved / correct_option are set and the results finalized.
\* InMemoryStore stores vote_counts; PgStore has no such column.
resolve_poll_from_chain(ps, p, c) ==
    IF p \in DOMAIN ps
    THEN [ps EXCEPT ![p].resolved = TRUE,
                    ![p].correct_option = Some(c),
                    ![p].vote_counts = IF store = "InMemoryStore"
                                       THEN CommitCounts(p, ps[p].options)
                                       ELSE @]
    ELSE ps

\* Room under MaxTotalVotes for one more finalization of poll p.
ResolveRoom(p) ==
    \A id \in DOMAIN user_stats :
        user_stats[id].total_votes
          + Cardinality({k \in 1 .. Len(commits) :
                            commits[k].poll_id = p /\ commits[k].identity_secret = id})
            <= MaxTotalVotes

\* ---------------------------------------------- main.rs: request handlers
tickVars == <<sync, runs>>

PollTimes == {<<1, 2>>}

\* The response: the slot keeps which request it answered and how.
Done(r, res) ==
    [r EXCEPT !.pc = "done", !.result = res, !.choice = 0, !.secret_ok = FALSE,
              !.phase = ""]

\* A slot is free before its first request and once it has answered.
Free(s) == req[s].pc \in {"idle", "done"}

\* Requests take the lowest slot: a higher one is used only while every lower
\* one is busy.
Accepts(s) == Free(s) /\ \A t \in Slots : t < s => ~Free(t)

Started(o, p, u, c, n, sec) ==
    [IdleReq EXCEPT !.op = o, !.poll_id = p, !.user = u, !.choice = c,
                    !.nullifier = n, !.secret_ok = sec,
                    !.phase = IF p \in DOMAIN polls THEN PhaseOf(p) ELSE ""]

\* login: ensure_member adds the identity and creates or renames its stats.
Login(u) ==
    LET id == derive_identity_secret(u)
    IN /\ members' = members \cup {id}
       /\ user_stats' = IF id \in DOMAIN user_stats
                        THEN [user_stats EXCEPT ![id].username = u]
                        ELSE Put(user_stats, id, ZeroStats(u))
       /\ UNCHANGED <<store, now, polls, poll_members, poll_secrets, commits,
                      commit_seq, synced_commits, votes, vote_nullifiers,
                      poll_seq, req, tickVars, indexer>>

\* create_poll without a contract client: store.create_poll.  InMemoryStore
\* takes polls.len() as the id and replaces record and member list;
\* PgStore takes the next sequence value and upserts, keeping resolved,
\* correct_option and commit_sync_completed of an existing row.
\* membership_root_snapshot: InMemoryStore hashes the member list; PgStore
\* takes the root its Merkle script prints, taken here to be in the decimal
\* form the ledger event carries.
membership_root_snapshot ==
    IF store = "InMemoryStore" THEN hash_members(members)
    ELSE to_decimal(hash_members(members))

CreatePollN(u, n, commit_end, reveal_end) ==
    /\ commit_end < reveal_end
    /\ LET id == IF store = "InMemoryStore"
                 THEN Cardinality(DOMAIN polls)
                 ELSE poll_seq + 1
           fresh == [NewPollRecordN(n, commit_end, reveal_end, u)
                       EXCEPT !.membership_root = membership_root_snapshot]
       IN /\ id \in PollIds
          /\ poll_seq' = IF store = "PgStore" THEN id ELSE poll_seq
          /\ polls' = IF store = "PgStore" /\ id \in DOMAIN polls
                      THEN [polls EXCEPT ![id].options = n,
                                         ![id].membership_root = membership_root_snapshot,
                                         ![id].commit_phase_end = commit_end,
                                         ![id].reveal_phase_end = reveal_end,
                                         ![id].owner = u,
                                         ![id].reveal_tx_hash = ""]
                      ELSE Put(polls, id, fresh)
          /\ poll_members' = IF store = "PgStore" /\ id \in DOMAIN poll_members
                             THEN [poll_members EXCEPT ![id] = @ \cup members]
                             ELSE Put(poll_members, id, members)
    /\ UNCHANGED <<store, now, members, poll_secrets, commits, commit_seq,
                   synced_commits, votes, vote_nullifiers, user_stats, req,
                   tickVars, indexer>>

CreatePoll(u, commit_end, reveal_end) ==
    CreatePollN(u, NUM_OPTIONS, commit_end, reveal_end)

\* A membership check that only asks for the poll.
poll_includes_anyone(p, id) == p \in DOMAIN poll_members

poll_includes_member(p, id) ==
    p \in DOMAIN poll_members /\ id \in poll_members[p]

\* fetch_secret: a member of an existing poll gets the per-poll secret,
\* minted on first use.
FetchSecret(u, p) ==
    /\ p \in DOMAIN polls
    /\ poll_includes_member(p, derive_identity_secret(u))
    /\ \E sec \in Secrets :
          poll_secrets' = insert_poll_secret(poll_secrets, p,
                                             derive_identity_secret(u), sec)
    /\ UNCHANGED <<store, now, polls, poll_members, members, commits,
                   commit_seq, synced_commits, votes, vote_nullifiers,
                   user_stats, poll_seq, req, tickVars, indexer>>

\* record_commit, up to the store call: get_poll, Utc::now(), the
\* commit_phase_end comparison, the choice range, get_or_create_secret with
\* the comparison of body.secret (the request can carry the server's secret
\* only if one had been minted before) and poll_includes_member.
CommitBegin(s, u, p, c, sec) ==
    /\ Accepts(s)
    /\ LET r == Started("commit", p, u, c, "", sec)
           id == derive_identity_secret(u)
           checked == /\ p \in DOMAIN polls
                      /\ now < polls[p].commit_phase_end
                      /\ c < polls[p].options
       IN /\ \E minted \in Secrets :
             poll_secrets' = IF checked
                             THEN insert_poll_secret(poll_secrets, p, id, minted)
                             ELSE poll_secrets
          /\ req' = [req EXCEPT ![s] =
                       IF p \notin DOMAIN polls THEN Done(r, "notfound")
                       ELSE IF ~checked THEN Done(r, "validation")
                       ELSE IF ~(sec /\ has_secret(poll_secrets, p, id))
                            THEN Done(r, "validation")
                       ELSE IF ~poll_includes_member(p, id) THEN Done(r, "validation")
                       ELSE [r EXCEPT !.pc = "store"]]
    /\ UNCHANGED <<store, now, polls, poll_members, members, commits,
                   commit_seq, synced_commits, votes, vote_nullifiers,
                   user_stats, poll_seq, tickVars, indexer>>

has_commit(p, id) ==
    \E i \in 1 .. Len(commits) :
        commits[i].poll_id = p /\ commits[i].identity_secret = id

NewCommit(r) ==
    [id |-> commit_seq, poll_id |-> r.poll_id,
     identity_secret |-> derive_identity_secret(r.user), choice |-> r.choice]

\* store.record_commit, first step.  InMemoryStore scans commits under the
\* read lock and releases it; PgStore runs its INSERT, which the unique index
\* on (poll_id, identity_secret) fails with a database error.
CommitStore(s) ==
    /\ req[s].pc = "store"
    /\ LET dup == has_commit(req[s].poll_id, derive_identity_secret(req[s].user))
       IN IF store = "InMemoryStore"
          THEN /\ req' = [req EXCEPT ![s] =
                             IF dup THEN Done(req[s], "validation")
                             ELSE [req[s] EXCEPT !.pc = "insert"]]
               /\ UNCHANGED <<commits, commit_seq>>
          ELSE IF dup
               THEN /\ req' = [req EXCEPT ![s] = Done(req[s], "db")]
                    /\ UNCHANGED <<commits, commit_seq>>
               ELSE /\ Len(commits) < MaxCommits
                    /\ commits' = Append(commits, NewCommit(req[s]))
                    /\ commit_seq' = commit_seq + 1
                    /\ req' = [req EXCEPT ![s] = Done(req[s], "ok")]
    /\ UNCHANGED <<store, now, polls, poll_members, members, poll_secrets,
                   synced_commits, votes, vote_nullifiers, user_stats,
                   poll_seq, tickVars, indexer>>

\* InMemoryStore::record_commit, second step: the id from commit_seq and the
\* push, with no second look at the commits.
CommitInsert(s) ==
    /\ req[s].pc = "insert"
    /\ Len(commits) < MaxCommits
    /\ commits' = Append(commits, NewCommit(req[s]))
    /\ commit_seq' = commit_seq + 1
    /\ req' = [req EXCEPT ![s] = Done(req[s], "ok")]
    /\ UNCHANGED <<store, now, polls, poll_members, members, poll_secrets,
                   synced_commits, votes, vote_nullifiers, user_stats,
                   poll_seq, tickVars, indexer>>

\* reveal_vote, up to the window check: get_poll, Utc::now() and the two
\* comparisons with commit_phase_end and reveal_phase_end.  The bundle is
\* well formed, so zk.verify and extract_choice succeed.
RevealBegin(s, p, n, c) ==
    /\ Accepts(s)
    /\ LET r == Started("reveal", p, "", c, n, FALSE)
       IN req' = [req EXCEPT ![s] =
                    IF p \notin DOMAIN polls THEN Done(r, "notfound")
                    ELSE IF \/ now < polls[p].commit_phase_end
                            \/ now >= polls[p].reveal_phase_end
                         THEN Done(r, "validation")
                    ELSE [r EXCEPT !.pc = "vote"]]
    /\ UNCHANGED <<store, now, polls, poll_members, members, poll_secrets,
                   commits, commit_seq, synced_commits, votes, vote_nullifiers,
                   user_stats, poll_seq, tickVars, indexer>>

has_vote(p, n) ==
    \E i \in 1 .. Len(votes) : votes[i].poll_id = p /\ votes[i].nullifier = n

\* InMemoryStore looks the key up in vote_nullifiers, PgStore in the votes
\* table.
nullifier_used(p, n) ==
    IF store = "InMemoryStore" THEN <<p, n>> \in vote_nullifiers ELSE has_vote(p, n)

\* store.record_vote, first step: the nullifier lookup.
RevealCheck(s) ==
    /\ req[s].pc = "vote"
    /\ req' = [req EXCEPT ![s] =
                  IF nullifier_used(req[s].poll_id, req[s].nullifier)
                  THEN Done(req[s], "validation")
                  ELSE [req[s] EXCEPT !.pc = "vote_insert"]]
    /\ UNCHANGED <<store, now, polls, poll_members, members, poll_secrets,
                   commits, commit_seq, synced_commits, votes, vote_nullifiers,
                   user_stats, poll_seq, tickVars, indexer>>

\* The stored vote: StoredVoteRecord has no choice, the votes table has the
\* column.
NewVote(p, n, c) ==
    IF store = "InMemoryStore"
    THEN [poll_id |-> p, nullifier |-> n]
    ELSE [poll_id |-> p, nullifier |-> n, choice |-> c]

\* vote_counts after record_vote: resized to n = options.len() when shorter,
\* then counted at c if c indexes it.
counted(vc, n, c) ==
    LET resized == IF Cardinality(DOMAIN vc) < n
                   THEN [i \in 0 .. n - 1 |-> IF i \in DOMAIN vc THEN vc[i] ELSE 0]
                   ELSE vc
    IN IF c \in DOMAIN resized THEN [resized EXCEPT ![c] = @ + 1] ELSE resized

\* store.record_vote, second step.  InMemoryStore pushes the vote, inserts
\* the nullifier and counts the choice if it indexes an option; PgStore
\* INSERTs, which the unique index on (poll_id, nullifier) fails with a
\* database error.
RevealInsert(s) ==
    /\ req[s].pc = "vote_insert"
    /\ LET p == req[s].poll_id
           n == req[s].nullifier
           c == req[s].choice
       IN IF store = "PgStore" /\ has_vote(p, n)
          THEN /\ req' = [req EXCEPT ![s] = Done(req[s], "db")]
               /\ UNCHANGED <<votes, vote_nullifiers, polls>>
          ELSE /\ Len(votes) < MaxVotes
               /\ votes' = Append(votes, NewVote(p, n, c))
               /\ vote_nullifiers' = IF store = "InMemoryStore"
                                     THEN vote_nullifiers \cup {<<p, n>>}
                                     ELSE vote_nullifiers
               /\ polls' = IF store = "InMemoryStore" /\ p \in DOMAIN polls
                           THEN [polls EXCEPT ![p].vote_counts =
                                                 counted(@, polls[p].options, c)]
                           ELSE polls
               /\ req' = [req EXCEPT ![s] = Done(req[s], "ok")]
    /\ UNCHANGED <<store, now, poll_members, members, poll_secrets, commits,
                   commit_seq, synced_commits, user_stats, poll_seq, tickVars,
                   indexer>>

\* resolve_poll, up to the store call: owner, resolved, reveal_phase_end and
\* the range of correct_option, all on the record get_poll returned.
ResolveBegin(s, u, p, c) ==
    /\ Accepts(s)
    /\ LET r == Started("resolve", p, u, c, "", FALSE)
       IN req' = [req EXCEPT ![s] =
                    IF p \notin DOMAIN polls THEN Done(r, "notfound")
                    ELSE IF polls[p].owner # u THEN Done(r, "validation")
                    ELSE IF polls[p].resolved THEN Done(r, "validation")
                    ELSE IF now < polls[p].reveal_phase_end THEN Done(r, "validation")
                    ELSE IF c >= polls[p].options THEN Done(r, "validation")
                    ELSE [r EXCEPT !.pc = "resolve"]]
    /\ UNCHANGED <<store, now, polls, poll_members, members, poll_secrets,
                   commits, commit_seq, synced_commits, votes, vote_nullifiers,
                   user_stats, poll_seq, tickVars, indexer>>

\* store.resolve_poll: sets resolved and correct_option whatever they were,
\* then finalizes the results.
resolve_poll(s) ==
    /\ req[s].pc = "resolve"
    /\ polls' = resolve_poll_from_chain(polls, req[s].poll_id, req[s].choice)
    /\ user_stats' = apply_poll_results(user_stats, CommitsOf(req[s].poll_id),
                                        req[s].choice)
    /\ req' = [req EXCEPT ![s] = Done(req[s], "ok")]
    /\ UNCHANGED <<store, now, poll_members, members, poll_secrets, commits,
                   commit_seq, synced_commits, votes, vote_nullifiers,
                   poll_seq, tickVars, indexer>>

ResolveApply(s) == ResolveRoom(req[s].poll_id) /\ resolve_poll(s)

\* ------------------------------------------------ indexer.rs: handle_log
\* ev.membership_root.to_string(): the event of poll p carries the number
\* the poll was created with (that of the empty list for a poll this store
\* has not seen), and the indexer stores its decimal string.
ChainRoot(p) ==
    IF p \in DOMAIN polls THEN to_decimal(polls[p].membership_root)
    ELSE to_decimal(hash_members({}))

\* Mutant of IndexPollCreatedN: InMemoryStore updates an existing record in
\* place, keeping its vote_counts and correct_option.
IndexPollCreatedInPlace(p, n, commit_end, reveal_end) ==
    /\ polls' = IF p \in DOMAIN polls
                THEN [polls EXCEPT ![p].options = n,
                                   ![p].commit_phase_end = commit_end,
                                   ![p].reveal_phase_end = reveal_end,
                                   ![p].resolved = (store = "PgStore" /\ @)]
                ELSE Put(polls, p, NewPollRecordN(n, commit_end, reveal_end, ""))
    /\ UNCHANGED <<store, now, poll_members, members, poll_secrets, commits,
                   commit_seq, synced_commits, votes, vote_nullifiers,
                   user_stats, poll_seq, req, tickVars, indexer>>

\* PollCreated: InMemoryStore replaces the whole record with an unresolved
\* one; PgStore inserts or, on conflict, updates the options and the times.
\* The event names no owner.
IndexPollCreatedN(p, n, commit_end, reveal_end) ==
    /\ polls' = IF store = "PgStore" /\ p \in DOMAIN polls
                THEN [polls EXCEPT ![p].options = n,
                                   ![p].commit_phase_end = commit_end,
                                   ![p].reveal_phase_end = reveal_end,
                                   ![p].membership_root = ChainRoot(p)]
                ELSE Put(polls, p,
                         [NewPollRecordN(n, commit_end, reveal_end, "")
                            EXCEPT !.membership_root = ChainRoot(p)])
    /\ UNCHANGED <<store, now, poll_members, members, poll_secrets, commits,
                   commit_seq, synced_commits, votes, vote_nullifiers,
                   user_stats, poll_seq, req, tickVars, indexer>>

IndexPollCreated(p, commit_end, reveal_end) ==
    IndexPollCreatedN(p, NUM_OPTIONS, commit_end, reveal_end)

\* VoteRevealed: InMemoryStore pushes the vote without consulting or updating
\* vote_nullifiers; PgStore inserts ON CONFLICT DO NOTHING, and the foreign
\* key fails the insert for an unknown poll.
IndexVoteRevealed(p, n, c) ==
    /\ IF store = "InMemoryStore"
       THEN /\ Len(votes) < MaxVotes
            /\ votes' = Append(votes, NewVote(p, n, c))
       ELSE IF p \in DOMAIN polls /\ ~has_vote(p, n)
            THEN /\ Len(votes) < MaxVotes
                 /\ votes' = Append(votes, NewVote(p, n, c))
            ELSE UNCHANGED votes
    /\ UNCHANGED <<store, now, polls, poll_members, members, poll_secrets,
                   commits, commit_seq, synced_commits, vote_nullifiers,
                   user_stats, poll_seq, req, tickVars, indexer>>

\* Mutant of handle_poll_resolved: the poll is marked, the results are not
\* applied.
handle_poll_resolved_unscored(p, c) ==
    /\ polls' = resolve_poll_from_chain(polls, p, c)
    /\ UNCHANGED <<store, now, poll_members, members, poll_secrets, commits,
                   commit_seq, synced_commits, votes, vote_nullifiers,
                   user_stats, poll_seq, req, tickVars, indexer>>

\* A resolution that drops the commitments it has scored.
handle_poll_resolved_clearing(p, c) ==
    /\ polls' = resolve_poll_from_chain(polls, p, c)
    /\ user_stats' = apply_poll_results(user_stats, CommitsOf(p), c)
    /\ commits' = SelectSeq(commits, LAMBDA r : r.poll_id # p)
    /\ UNCHANGED <<store, now, poll_members, members, poll_secrets,
                   commit_seq, synced_commits, votes, vote_nullifiers,
                   poll_seq, req, tickVars, indexer>>

\* PollResolved: resolve_poll_from_chain.
handle_poll_resolved(p, c) ==
    /\ polls' = resolve_poll_from_chain(polls, p, c)
    /\ user_stats' = apply_poll_results(user_stats, CommitsOf(p), c)
    /\ UNCHANGED <<store, now, poll_members, members, poll_secrets, commits,
                   commit_seq, synced_commits, votes, vote_nullifiers,
                   poll_seq, req, tickVars, indexer>>

IndexPollResolved(p, c) == ResolveRoom(p) /\ handle_poll_resolved(p, c)

\* ------------------------------------------------------ the whole backend
Init ==
    /\ store \in Stores
    /\ now = 0
    /\ polls = EmptyMap
    /\ poll_members = EmptyMap
    /\ members = {}
    /\ poll_secrets = {}
    /\ commits = <<>>
    /\ commit_seq = 0
    /\ synced_commits = {}
    /\ votes = <<>>
    /\ vote_nullifiers = {}
    /\ user_stats = EmptyMap
    /\ poll_seq = 0
    /\ req = [s \in Slots |-> IdleReq]
    /\ sync = IdleSync
    /\ runs = <<>>
    /\ indexer = IdleIndexer

Next ==
    \/ AdvanceClock(MaxTime)
    \/ \E u \in Users : Login(u)
    \/ \E u \in Users, t \in PollTimes : CreatePoll(u, t[1], t[2])
    \/ \E u \in Users, p \in PollIds : FetchSecret(u, p)
    \/ \E s \in Slots, u \in Users, p \in PollIds, c \in Choices, sec \in BOOLEAN :
          CommitBegin(s, u, p, c, sec)
    \/ \E s \in Slots : CommitStore(s)
    \/ \E s \in Slots : CommitInsert(s)
    \/ \E s \in Slots, p \in PollIds, n \in Nullifiers, c \in Options :
          RevealBegin(s, p, n, c)
    \/ \E s \in Slots : RevealCheck(s)
    \/ \E s \in Slots : RevealInsert(s)
    \/ \E s \in Slots, u \in Users, p \in PollIds, c \in Choices :
          ResolveBegin(s, u, p, c)
    \/ \E s \in Slots : ResolveApply(s)
    \/ \E p \in PollIds, t \in PollTimes : IndexPollCreated(p, t[1], t[2])
    \/ \E p \in PollIds, n \in Nullifiers, c \in Options : IndexVoteRevealed(p, n, c)
    \/ \E p \in PollIds, c \in Options : IndexPollResolved(p, c)

Spec == Init /\ [][Next]_vars

\* Two answered requests of handler o for the same poll and key.
SameKey(s, t, o) ==
    /\ s # t
    /\ req[s].op = o /\ req[s].pc = "done"
    /\ req[t].op = o /\ req[t].pc = "done"
    /\ req[s].poll_id = req[t].poll_id
    /\ req[s].user = req[t].user
    /\ req[s].nullifier = req[t].nullifier

\* C1: of two concurrent record_vote calls for the same (poll_id, nullifier)
\* exactly one returns success and the other a Validation error: when one of
\* two answered reveal requests for the same key succeeded, the other was
\* refused with Validation.
ConcurrentVotesOneSuccess ==
    \A s, t \in Slots :
        (SameKey(s, t, "reveal") /\ req[s].result = "ok")
            => req[t].result = "validation"

\* C2: at most one Commitment row exists for every (poll_id, identity_secret)
\* in every reachable state, in either store.
OneCommitPerIdentity ==
    \A i, j \in 1 .. Len(commits) :
        (/\ commits[i].poll_id = commits[j].poll_id
         /\ commits[i].identity_secret = commits[j].identity_secret)
            => i = j

\* C3: a record_commit call that reaches the store when its (poll_id,
\* identity_secret) already has a Commitment, with no other request beside
\* it, is answered with Validation and leaves the commitments as they were.
DuplicateCommitIsValidation ==
    [][\A s \in Slots :
          (/\ req[s].op = "commit"
           /\ req[s].pc = "store"
           /\ has_commit(req[s].poll_id, derive_identity_secret(req[s].user))
           /\ \A t \in Slots \ {s} : req[t].pc = "idle"
           /\ req'[s] # req[s])
              => /\ req'[s].pc = "done"
                 /\ req'[s].result = "validation"
                 /\ commits' = commits]_vars

\* C4: a poll that is resolved stays resolved, whatever step comes next.
ResolvedStaysResolved ==
    [][\A p \in DOMAIN polls :
          polls[p].resolved => (p \in DOMAIN polls' /\ polls'[p].resolved)]_vars

\* C9: a record-commit request that read its poll in a phase other than
\* Commit stores nothing and, when answered, is answered with Validation.
CommitOnlyInCommitPhase ==
    [][\A s \in Slots :
          (/\ req[s].op = "commit"
           /\ req[s].pc \in {"store", "insert"}
           /\ req[s].phase # "Commit"
           /\ req'[s] # req[s])
              => /\ req'[s].pc = "done" => req'[s].result = "validation"
                 /\ commits' = commits]_vars

\* C10: a reveal request that read its poll in a phase other than Reveal
\* stores no Vote and, when answered, is answered with Validation.
RevealOnlyInRevealPhase ==
    [][\A s \in Slots :
          (/\ req[s].op = "reveal"
           /\ req[s].pc \in {"vote", "vote_insert"}
           /\ req[s].phase # "Reveal"
           /\ req'[s] # req[s])
              => /\ req'[s].pc = "done" => req'[s].result = "validation"
                 /\ votes' = votes]_vars

\* C11: of any number of resolve requests for the same poll at most one is
\* accepted: two answered resolve requests for one poll are never both
\* answered with success.
AtMostOneResolveAccepted ==
    \A s, t \in Slots :
        (/\ s # t
         /\ req[s].op = "resolve" /\ req[s].pc = "done"
         /\ req[t].op = "resolve" /\ req[t].pc = "done"
         /\ req[s].poll_id = req[t].poll_id
         /\ req[s].result = "ok")
            => req[t].result # "ok"

\* ------------------------------------------ resolution and scoring alone
MaxScorePolls == 2

\* Cap on total_votes of one identity.
MaxScoreVotes == 3

ScoreUserSeq == <<"alice", "bob">>

ScoreUsers == SeqToSet(ScoreUserSeq)

ScoreSlots == {1}

ScorePolls == FirstPollId(store) .. FirstPollId(store) + MaxScorePolls - 1

\* The k-th (poll, user) pair, in the order the commitments were recorded.
ScorePoll(k) == FirstPollId(store) + ((k - 1) \div Len(ScoreUserSeq))

ScoreUser(k) == ScoreUserSeq[((k - 1) % Len(ScoreUserSeq)) + 1]

RECURSIVE CommitsFrom(_, _, _)
\* The commitments table after the pairs with a choice (ch[k] >= 0) have
\* committed, each row taking the next id.
CommitsFrom(ch, k, acc) ==
    IF k > Len(ch) THEN acc
    ELSE CommitsFrom(ch, k + 1,
             IF ch[k] < 0 THEN acc
             ELSE Append(acc, [id |-> Len(acc), poll_id |-> ScorePoll(k),
                               identity_secret |-> derive_identity_secret(ScoreUser(k)),
                               choice |-> ch[k]]))

\* Room under MaxScoreVotes for one more finalization of poll p.
ScoreRoom(p) ==
    \A id \in DOMAIN user_stats :
        user_stats[id].total_votes
          + Cardinality({k \in 1 .. Len(commits) :
                            commits[k].poll_id = p /\ commits[k].identity_secret = id})
            <= MaxScoreVotes

\* A store after the reveal phase of MaxScorePolls polls of alice: every
\* user has logged in before the polls were created, each user has committed
\* on each poll at most once, nothing is resolved yet.
InitScore ==
    /\ store \in Stores
    /\ now = MaxTime
    /\ LET ids == {derive_identity_secret(u) : u \in ScoreUsers}
       IN /\ polls = [p \in ScorePolls |-> CreatedPoll(1, 2, "alice", ids)]
          /\ poll_members = [p \in ScorePolls |-> ids]
          /\ members = ids
          /\ user_stats = [id \in ids |-> ZeroStats(id[2])]
    /\ \E ch \in [1 .. MaxScorePolls * Len(ScoreUserSeq) -> -1 .. NUM_OPTIONS - 1] :
          commits = CommitsFrom(ch, 1, <<>>)
    /\ poll_secrets = {IssuedSecret(commits[k].poll_id, commits[k].identity_secret) :
                          k \in 1 .. Len(commits)}
    /\ commit_seq = Len(commits)
    /\ poll_seq = IF store = "PgStore" THEN MaxScorePolls ELSE 0
    /\ synced_commits = {}
    /\ votes = <<>>
    /\ vote_nullifiers = {}
    /\ req = [s \in Slots |-> IdleReq]
    /\ sync = IdleSync
    /\ runs = <<>>
    /\ indexer = IdleIndexer

ScoreResolveApply(s) == ScoreRoom(req[s].poll_id) /\ resolve_poll(s)

ScoreIndexPollResolved(p, c) == ScoreRoom(p) /\ handle_poll_resolved(p, c)

\* The orders in which a set can be walked.
Orders(S) ==
    {o \in [1 .. Cardinality(S) -> S] : \A i, j \in DOMAIN o : o[i] = o[j] => i = j}

zero_stats(stats) ==
    [id \in DOMAIN stats |->
        [stats[id] EXCEPT !.xp = 0, !.total_votes = 0, !.correct_votes = 0,
                          !.tier = tier_for_xp(0)]]

\* The polls backfill_user_stats finalizes again.
ScoredPolls(ps) ==
    {p \in DOMAIN ps : ps[p].resolved /\ ps[p].correct_option # None}

TheOption(o) == CHOOSE c \in o : TRUE

RECURSIVE backfill_stats(_, _, _)
\* One apply_poll_results / finalize_poll_results per poll of ord.
backfill_stats(stats, ps, ord) ==
    IF ord = <<>> THEN stats
    ELSE backfill_stats(
             apply_poll_results(stats, CommitsOf(Head(ord)),
                                TheOption(ps[Head(ord)].correct_option)),
             ps, Tail(ord))

\* finalize_poll_results rewrites vote_counts of each poll it is run for.
backfill_counts(ps) ==
    [p \in DOMAIN ps |->
        IF store = "InMemoryStore" /\ p \in ScoredPolls(ps)
        THEN [ps[p] EXCEPT !.vote_counts = CommitCounts(p, ps[p].options)]
        ELSE ps[p]]

\* backfill_user_stats, run while no request is in flight: the polls come
\* in the order the map or the query yields them.
Backfill ==
    /\ \A s \in Slots : Free(s)
    /\ \E ord \in Orders(ScoredPolls(polls)) :
          user_stats' = backfill_stats(zero_stats(user_stats), polls, ord)
    /\ polls' = backfill_counts(polls)
    /\ UNCHANGED <<store, now, poll_members, members, poll_secrets, commits,
                   commit_seq, synced_commits, votes, vote_nullifiers,
                   poll_seq, req, tickVars, indexer>>

NextScore ==
    \/ \E s \in ScoreSlots, u \in Users, p \in ScorePolls, c \in Choices :
          ResolveBegin(s, u, p, c)
    \/ \E s \in ScoreSlots : ScoreResolveApply(s)
    \/ \E p \in ScorePolls, c \in Options : ScoreIndexPollResolved(p, c)
    \/ Backfill

SpecScore == InitScore /\ [][NextScore]_vars

\* The commitments of identity id on poll p whose choice is (hit) or is not
\* (~hit) the option c.
ScoredCommits(p, id, c, hit) ==
    Cardinality({k \in 1 .. Len(commits) :
                    /\ commits[k].poll_id = p
                    /\ commits[k].identity_secret = id
                    /\ (commits[k].choice = c) = hit})

\* What one resolution of poll p with correct option c does to the stats.
Scored(p, c) ==
    /\ DOMAIN user_stats' = DOMAIN user_stats
    /\ \A id \in DOMAIN user_stats :
          LET right == ScoredCommits(p, id, c, TRUE)
              wrong == ScoredCommits(p, id, c, FALSE)
          IN /\ user_stats'[id].xp =
                    user_stats[id].xp + XP_CORRECT * right + XP_PARTICIPATION * wrong
             /\ user_stats'[id].correct_votes = user_stats[id].correct_votes + right
             /\ user_stats'[id].total_votes = user_stats[id].total_votes + right + wrong
             /\ (right + wrong = 0) => user_stats'[id] = user_stats[id]

\* C12: resolving a poll with correct option c adds, for every Commitment on
\* the poll, XP_CORRECT and one correct vote when the choice is c and
\* XP_PARTICIPATION otherwise, plus one total vote either way, and leaves
\* the members without a Commitment on the poll as they were.
ResolveScoresEveryCommit ==
    [][/\ \A s \in Slots :
            resolve_poll(s) => Scored(req[s].poll_id, req[s].choice)
       /\ \A p \in ScorePolls, c \in Options :
            handle_poll_resolved(p, c) => Scored(p, c)]_vars

\* C12 witness: poll p has just been resolved with option 1 for the first
\* time, alice committed 1 and bob committed 0 on it.
ResolveScoresEveryCommitWitness ==
    \E p \in DOMAIN polls :
        /\ polls[p].correct_option = Some(1)
        /\ \E i, j \in 1 .. Len(commits) :
              /\ commits[i].poll_id = p /\ commits[j].poll_id = p
              /\ commits[i].identity_secret = derive_identity_secret("alice")
              /\ commits[j].identity_secret = derive_identity_secret("bob")
              /\ commits[i].choice = 1 /\ commits[j].choice = 0
        /\ user_stats[derive_identity_secret("alice")].xp = XP_CORRECT
        /\ user_stats[derive_identity_secret("alice")].correct_votes = 1
        /\ user_stats[derive_identity_secret("bob")].xp = XP_PARTICIPATION
        /\ user_stats[derive_identity_secret("bob")].total_votes = 1
        /\ \E s \in Slots : /\ req[s].op = "resolve" /\ req[s].result = "ok"
                             /\ req[s].poll_id = p

\* C13: over any interleaving of API resolves and indexer poll-resolved
\* events, replays included, total_votes of an identity never exceeds the
\* number of resolved polls on which it has a Commitment.
StatsOncePerPoll ==
    \A id \in DOMAIN user_stats :
        user_stats[id].total_votes
            <= Cardinality({p \in DOMAIN polls :
                               polls[p].resolved /\ has_commit(p, id)})

\* C14: backfill_user_stats yields the xp, total_votes, correct_votes, tier
\* and vote_counts the incremental run has produced: a backfill step leaves
\* user_stats and polls as it found them.
BackfillAgreesWithIncremental ==
    [][Backfill => (user_stats' = user_stats /\ polls' = polls)]_vars

\* Poll records and stats after one resolution of poll p with option c.
Resolved(st, p, c) ==
    <<resolve_poll_from_chain(st[1], p, c),
      apply_poll_results(st[2], CommitsOf(p), c)>>

\* C15: resolutions of different polls commute: from every state, resolving
\* poll a with ca and then poll b with cb gives the same poll records and
\* the same UserStats as resolving b first and a second.
ResolutionsCommute ==
    \A a, b \in DOMAIN polls, ca, cb \in Options :
        a # b =>
            Resolved(Resolved(<<polls, user_stats>>, a, ca), b, cb)
              = Resolved(Resolved(<<polls, user_stats>>, b, cb), a, ca)

\* C15 witness: both polls have been resolved, one after the other, and
\* alice, who committed on both, was right on one and wrong on the other.
ResolutionsCommuteWitness ==
    /\ \A p \in DOMAIN polls : polls[p].resolved
    /\ Cardinality(DOMAIN polls) = MaxScorePolls
    /\ \A p \in DOMAIN polls : has_commit(p, derive_identity_secret("alice"))
    /\ user_stats[derive_identity_secret("alice")].total_votes = 2
    /\ user_stats[derive_identity_secret("alice")].xp = XP_CORRECT + XP_PARTICIPATION

\* C16: a rejected duplicate reveal changes nothing: a reveal request in
\* flight whose nullifier another reveal request has already stored on the
\* same poll adds no Vote row, leaves vote_counts as they were and, when
\* answered, is refused.
DuplicateRevealChangesNothing ==
    [][\A s \in Slots :
          (/\ req[s].op = "reveal"
           /\ req[s].pc \in {"vote", "vote_insert"}
           /\ \E t \in Slots \ {s} :
                 /\ req[t].op = "reveal" /\ req[t].pc = "done"
                 /\ req[t].result = "ok"
                 /\ req[t].poll_id = req[s].poll_id
                 /\ req[t].nullifier = req[s].nullifier
           /\ req'[s] # req[s])
              => /\ votes' = votes
                 /\ polls' = polls
                 /\ req'[s].pc = "done" => req'[s].result # "ok"]_vars

\* ----------------------------------- the reconciliation tick over two polls
\* The numbers of commitments pending on one poll: none, one batch, a full
\* batch, more than one batch.
PendingSizes == {0, 1, REVEAL_BATCH_SIZE, REVEAL_BATCH_SIZE + 1}

\* A store in which two polls have closed their commit phase with n1 and n2
\* commitments, nothing submitted yet and no request in flight.
InitSyncTwo ==
    /\ store \in Stores
    /\ now = 0
    /\ \E n1 \in PendingSizes, n2 \in PendingSizes :
        LET n == n1 + n2
            ids == {derive_identity_secret(i) : i \in 1 .. n}
            p1 == FirstPollId(store)
            p2 == FirstPollId(store) + 1
            pollOf(i) == IF i <= n1 THEN p1 ELSE p2
        IN /\ polls = Put(Put(EmptyMap, p1, CreatedPoll(1, 2, "alice", ids)),
                          p2, CreatedPoll(1, 2, "alice", ids))
           /\ poll_members = Put(Put(EmptyMap, p1, ids), p2, ids)
           /\ members = ids
           /\ poll_secrets = {IssuedSecret(pollOf(i), derive_identity_secret(i)) : i \in 1 .. n}
           /\ commits = [i \in 1 .. n |->
                            [id |-> i - 1, poll_id |-> pollOf(i),
                             identity_secret |-> derive_identity_secret(i),
                             choice |-> i % NUM_OPTIONS]]
           /\ commit_seq = n
           /\ user_stats = [id \in ids |-> ZeroStats(id[2])]
           /\ poll_seq = p2
    /\ synced_commits = {}
    /\ votes = <<>>
    /\ vote_nullifiers = {}
    /\ req = [s \in Slots |-> IdleReq]
    /\ sync = IdleSync
    /\ runs = <<>>
    /\ indexer = IdleIndexer

SpecSyncTwo == InitSyncTwo /\ [][NextSync]_vars

PollsOf(r) == {r.pending[i].poll_id : i \in 1 .. Len(r.pending)}

CallIds(calls) == Concat([i \in 1 .. Len(calls) |-> calls[i].ids])

\* C17: within one tick a failed batch stops the further batches of its own
\* poll only: in every finished tick each poll with pending commitments is
\* submitted to, a failed call is the last call for its poll, and a poll
\* none of whose own calls failed has all its pending commitments submitted
\* in order and marked synced, whatever happened to the other poll and in
\* whatever order the polls were taken.
FailedBatchStopsOnlyItsPoll ==
    \A k \in FinishedRuns :
        \A p \in PollsOf(runs[k]) :
            LET calls == CallsFor(runs[k], p)
                pend == PendingFor(runs[k], p)
            IN /\ calls # <<>>
               /\ \A i \in 1 .. Len(calls) : ~calls[i].ok => i = Len(calls)
               /\ (\A i \in 1 .. Len(calls) : calls[i].ok)
                     => /\ CallIds(calls) = CommitIds(pend)
                        /\ SeqToSet(CommitIds(pend)) \subseteq synced_commits

\* C17 witness: a finished tick took the poll whose first batch failed
\* first and, after that single failed call, submitted both batches of the
\* other poll's 21 commitments.
FailedBatchStopsOnlyItsPollWitness ==
    /\ sync.pc = "idle"
    /\ Len(runs) = 1
    /\ Len(runs[1].pending) = 2 * (REVEAL_BATCH_SIZE + 1)
    /\ Len(runs[1].calls) = 3
    /\ ~runs[1].calls[1].ok
    /\ runs[1].calls[2].ok /\ runs[1].calls[3].ok
    /\ runs[1].calls[2].poll_id # runs[1].calls[1].poll_id
    /\ runs[1].calls[3].poll_id = runs[1].calls[2].poll_id
    /\ Cardinality(synced_commits) = REVEAL_BATCH_SIZE + 1

\* ------------------------------------------------ indexer.rs: run_indexer
\* Cap on the handle_log errors the loop logs.
MaxLogErrors == 2

\* The largest second DateTime::from_timestamp accepts, scaled down.
MaxStamp == 3

\* A uint256 of a ledger event: whether it fits 64 bits and, if it does, the
\* i64 that `as_u64() as i64` makes of it (negative from 2^63 on).
U256(fits, val) == [fits |-> fits, val |-> val]

\* DateTime::from_timestamp(secs, 0)
from_timestamp(secs) ==
    IF secs \in -MaxStamp .. MaxStamp THEN Some(secs) ELSE None

\* The poll ids a log can carry: one beyond 64 bits, one that wraps to a
\* negative i64, and the ids of known polls.
LogPollIds ==
    {U256(FALSE, 0), U256(TRUE, -1)} \cup {U256(TRUE, p) : p \in PollIds}

\* The timestamps a log can carry: one beyond 64 bits, one outside the range
\* of DateTime, and the times polls use.
LogStamps ==
    {U256(FALSE, 0), U256(TRUE, MaxStamp + 1)}
        \cup {U256(TRUE, t[1]) : t \in PollTimes} \cup {U256(TRUE, t[2]) : t \in PollTimes}

storeVars ==
    <<store, now, polls, poll_members, members, poll_secrets, commits,
      commit_seq, synced_commits, votes, vote_nullifiers, user_stats, poll_seq,
      req, tickVars>>

\* U256::as_u64 panics on a value beyond 64 bits: the indexer task unwinds.
Panicked ==
    /\ indexer' = [indexer EXCEPT !.pc = "panicked"]
    /\ UNCHANGED storeVars

\* handle_log returned Err: run_indexer logs it and takes the next log.
LoggedError ==
    /\ indexer.errors < MaxLogErrors
    /\ indexer' = [indexer EXCEPT !.errors = @ + 1]
    /\ UNCHANGED storeVars

\* A log no event decodes: handle_log returns Ok(()).
HandleOtherLog ==
    /\ indexer.pc = "running"
    /\ UNCHANGED vars

\* PollCreated: poll_id.as_u64(), to_ts(commit_phase_end)?,
\* to_ts(reveal_phase_end)?, upsert_poll_from_chain.
HandlePollCreated(poll_id, commit_phase_end, reveal_phase_end) ==
    /\ indexer.pc = "running"
    /\ IF ~poll_id.fits \/ ~commit_phase_end.fits THEN Panicked
       ELSE IF from_timestamp(commit_phase_end.val) = None THEN LoggedError
       ELSE IF ~reveal_phase_end.fits THEN Panicked
       ELSE IF from_timestamp(reveal_phase_end.val) = None THEN LoggedError
       ELSE IndexPollCreated(poll_id.val, commit_phase_end.val,
                             reveal_phase_end.val)

\* VoteRevealed: poll_id.as_u64(), upsert_vote_from_chain; in PgStore the
\* foreign key fails the insert for an unknown poll.
HandleVoteRevealed(poll_id, n, c) ==
    /\ indexer.pc = "running"
    /\ IF ~poll_id.fits THEN Panicked
       ELSE IF store = "PgStore" /\ poll_id.val \notin DOMAIN polls THEN LoggedError
       ELSE IndexVoteRevealed(poll_id.val, n, c)

\* PollResolved: poll_id.as_u64(), resolve_poll_from_chain.
HandlePollResolved(poll_id, c) ==
    /\ indexer.pc = "running"
    /\ IF ~poll_id.fits THEN Panicked
       ELSE IndexPollResolved(poll_id.val, c)

\* The log stream ends: `while let Some(log)` leaves the loop.
StreamEnd ==
    /\ indexer.pc = "running"
    /\ indexer' = [indexer EXCEPT !.pc = "ended"]
    /\ UNCHANGED storeVars

NextIndexer ==
    \/ HandleOtherLog
    \/ \E p \in LogPollIds, ce \in LogStamps, re \in LogStamps :
          HandlePollCreated(p, ce, re)
    \/ \E p \in LogPollIds, n \in Nullifiers, c \in Options :
          HandleVoteRevealed(p, n, c)
    \/ \E p \in LogPollIds, c \in Options : HandlePollResolved(p, c)
    \/ StreamEnd

SpecIndexer == Init /\ [][NextIndexer]_vars

\* C18: the indexer loop never terminates because of a log: whatever log it
\* is handed (undecodable, out-of-range poll id or timestamp, or one whose
\* handling fails), the task is not brought down and goes on to the next.
IndexerSurvivesEveryLog == indexer.pc # "panicked"

\* --------------------------------------------- the shape of poll records
\* Polls have NUM_OPTIONS .. MaxOptions options.
MaxOptions == 3

OptionCounts == NUM_OPTIONS .. MaxOptions

\* The choices a request or an event can carry for such polls.
AnyOption == 0 .. MaxOptions - 1

\* PgStore::populate_vote_counts: vec![0; options.len()] filled from the
\* votes table and, if that leaves every count 0, from the commitments.
populate_vote_counts(p) ==
    LET n == polls[p].options
        fromVotes == [i \in 0 .. n - 1 |->
                         Cardinality({k \in 1 .. Len(votes) :
                                         votes[k].poll_id = p /\ votes[k].choice = i})]
    IN IF \A i \in 0 .. n - 1 : fromVotes[i] = 0
       THEN CommitCounts(p, n)
       ELSE fromVotes

\* vote_counts of the PollRecord the store returns for poll p.
vote_counts_of(p) ==
    IF store = "InMemoryStore" THEN polls[p].vote_counts
    ELSE populate_vote_counts(p)

NextShape ==
    \/ AdvanceClock(MaxTime)
    \/ \E u \in Users : Login(u)
    \/ \E u \in Users, n \in OptionCounts, t \in PollTimes :
          CreatePollN(u, n, t[1], t[2])
    \/ \E u \in Users, p \in PollIds : FetchSecret(u, p)
    \/ \E s \in ScoreSlots, u \in Users, p \in PollIds, c \in AnyOption :
          CommitBegin(s, u, p, c, TRUE)
    \/ \E s \in ScoreSlots : CommitStore(s)
    \/ \E s \in ScoreSlots : CommitInsert(s)
    \/ \E s \in ScoreSlots, p \in PollIds, n \in Nullifiers, c \in AnyOption :
          RevealBegin(s, p, n, c)
    \/ \E s \in ScoreSlots : RevealCheck(s)
    \/ \E s \in ScoreSlots : RevealInsert(s)
    \/ \E s \in ScoreSlots, u \in Users, p \in PollIds, c \in AnyOption :
          ResolveBegin(s, u, p, c)
    \/ \E s \in ScoreSlots : ResolveApply(s)
    \/ \E p \in PollIds, n \in OptionCounts, t \in PollTimes :
          IndexPollCreatedN(p, n, t[1], t[2])
    \/ \E p \in PollIds, n \in Nullifiers, c \in AnyOption : IndexVoteRevealed(p, n, c)
    \/ \E p \in PollIds, c \in AnyOption : IndexPollResolved(p, c)
    \/ Backfill

SpecShape == Init /\ [][NextShape]_vars

\* C19: every stored poll has as many vote_counts as options, and has a
\* correct_option only if it is resolved, after any sequence of create,
\* commit, reveal, resolve, indexer upserts and backfill.
PollRecordShape ==
    \A p \in DOMAIN polls :
        /\ DOMAIN vote_counts_of(p) = 0 .. polls[p].options - 1
        /\ polls[p].correct_option # None => polls[p].resolved

\* C19 witness: in InMemoryStore a poll that has MaxOptions options has been
\* resolved and counts a vote for its last option.
PollRecordShapeWitness ==
    \E p \in DOMAIN polls :
        /\ store = "InMemoryStore"
        /\ polls[p].options = MaxOptions
        /\ polls[p].resolved
        /\ polls[p].correct_option # None
        /\ vote_counts_of(p)[MaxOptions - 1] >= 1

\* C20: a poll's membership_root and frozen member snapshot never change
\* after creation: whatever step comes next (a login, a commit, an indexer
\* upsert replay), a poll that has a member snapshot keeps that snapshot and
\* its membership_root.
SnapshotFrozen ==
    [][\A p \in DOMAIN polls \cap DOMAIN poll_members :
          /\ p \in DOMAIN polls' \cap DOMAIN poll_members'
          /\ poll_members'[p] = poll_members[p]
          /\ polls'[p].membership_root = polls[p].membership_root]_vars

\* --------------------------------------------- the per-poll secret alone
\* Concurrent GET /polls/:id/secret requests on one poll whose members are
\* alice and bob; carol is registered nowhere and the next poll id is unknown.
SecretValues == {"k1", "k2"}

SecretUsers == {"alice", "bob", "carol"}

InitSecret ==
    /\ store \in Stores
    /\ now = 0
    /\ LET ids == {derive_identity_secret(u) : u \in {"alice", "bob"}}
           p == FirstPollId(store)
       IN /\ polls = Put(EmptyMap, p, CreatedPoll(1, 2, "alice", ids))
          /\ poll_members = Put(EmptyMap, p, ids)
          /\ members = ids
          /\ user_stats = [id \in ids |-> ZeroStats(id[2])]
          /\ poll_seq = p
    /\ poll_secrets = {}
    /\ commits = <<>>
    /\ commit_seq = 0
    /\ synced_commits = {}
    /\ votes = <<>>
    /\ vote_nullifiers = {}
    /\ req = [s \in Slots |-> IdleReq]
    /\ sync = IdleSync
    /\ runs = <<>>
    /\ indexer = IdleIndexer

\* The request answered with the secret of row.
Answered(r, row) == [Done(r, "ok") EXCEPT !.secret = row.secret]

\* fetch_secret: get_poll, poll_includes_member, then get_or_create_secret.
\* InMemoryStore looks up and inserts under one write lock; PgStore runs
\* its first SELECT and, finding no row, draws a secret (sec).
SecretBegin(s, u, p, sec) ==
    /\ Accepts(s)
    /\ LET r == Started("secret", p, u, 0, "", FALSE)
           id == derive_identity_secret(u)
       IN IF p \notin DOMAIN polls
          THEN /\ req' = [req EXCEPT ![s] = Done(r, "notfound")]
               /\ UNCHANGED poll_secrets
          ELSE IF ~poll_includes_member(p, id)
          THEN /\ req' = [req EXCEPT ![s] = Done(r, "validation")]
               /\ UNCHANGED poll_secrets
          ELSE IF store = "InMemoryStore"
          THEN /\ poll_secrets' = insert_poll_secret(poll_secrets, p, id, sec)
               /\ \E row \in poll_secrets' :
                     /\ row.poll_id = p /\ row.identity_secret = id
                     /\ req' = [req EXCEPT ![s] = Answered(r, row)]
          ELSE /\ UNCHANGED poll_secrets
               /\ IF has_secret(poll_secrets, p, id)
                  THEN \E row \in poll_secrets :
                          /\ row.poll_id = p /\ row.identity_secret = id
                          /\ req' = [req EXCEPT ![s] = Answered(r, row)]
                  ELSE req' = [req EXCEPT ![s] =
                                  [r EXCEPT !.pc = "secret_insert", !.secret = sec]]
    /\ UNCHANGED <<store, now, polls, poll_members, members, commits,
                   commit_seq, synced_commits, votes, vote_nullifiers,
                   user_stats, poll_seq, tickVars, indexer>>

\* PgStore::get_or_create_secret, second statement: the INSERT.
SecretInsert(s) ==
    /\ req[s].pc = "secret_insert"
    /\ poll_secrets' = insert_poll_secret(poll_secrets, req[s].poll_id,
                                          derive_identity_secret(req[s].user),
                                          req[s].secret)
    /\ req' = [req EXCEPT ![s].pc = "secret_saved"]
    /\ UNCHANGED <<store, now, polls, poll_members, members, commits,
                   commit_seq, synced_commits, votes, vote_nullifiers,
                   user_stats, poll_seq, tickVars, indexer>>

\* PgStore::get_or_create_secret, third statement: the SELECT of the saved
\* row, whose secret is returned.
SecretSaved(s) ==
    /\ req[s].pc = "secret_saved"
    /\ \E row \in poll_secrets :
          /\ row.poll_id = req[s].poll_id
          /\ row.identity_secret = derive_identity_secret(req[s].user)
          /\ req' = [req EXCEPT ![s] = Answered(req[s], row)]
    /\ UNCHANGED <<store, now, polls, poll_members, members, poll_secrets,
                   commits, commit_seq, synced_commits, votes, vote_nullifiers,
                   user_stats, poll_seq, tickVars, indexer>>

NextSecret ==
    \/ \E s \in Slots, u \in SecretUsers, sec \in SecretValues,
          p \in FirstPollId(store) .. FirstPollId(store) + 1 :
          SecretBegin(s, u, p, sec)
    \/ \E s \in Slots : SecretInsert(s)
    \/ \E s \in Slots : SecretSaved(s)

SpecSecret == InitSecret /\ [][NextSecret]_vars

\* C21: every answered secret request carries the secret stored for its
\* key, no key has two stored secrets, and a stored secret is never replaced
\* or removed: the first request mints it, every later or concurrent one
\* returns that same value.
SecretMintedOnce ==
    /\ [](\A s \in Slots :
            (req[s].op = "secret" /\ req[s].pc = "done" /\ req[s].result = "ok")
                => PollSecret(req[s].poll_id, derive_identity_secret(req[s].user),
                              req[s].secret) \in poll_secrets)
    /\ [](\A r1, r2 \in poll_secrets :
            (r1.poll_id = r2.poll_id /\ r1.identity_secret = r2.identity_secret)
                => r1 = r2)
    /\ [][poll_secrets \subseteq poll_secrets']_vars

\* Two concurrent first requests for one key: one has been answered with the
\* stored secret while the other, having drawn a different value and run its
\* INSERT, is about to read the saved row.
SecretMintedOnceWitness ==
    \E s, t \in Slots :
        /\ req[s].op = "secret" /\ req[s].pc = "done" /\ req[s].result = "ok"
        /\ req[t].op = "secret" /\ req[t].pc = "secret_saved"
        /\ req[t].poll_id = req[s].poll_id
        /\ req[t].user = req[s].user
        /\ req[t].secret # req[s].secret

\* --------------------------------------------------- the leaderboard alone
\* The usernames of the scenario, in the byte order str::cmp compares them
\* in ('Z' is 0x5A, 'a' is 0x61).
BoardNames == <<"Zed", "adam", "bob">>

\* The collations a database can order text by: "C" compares bytes, a
\* linguistic one such as en_US.UTF-8 compares letters before case.
Collations == {"C", "en_US"}

\* a.username.cmp(&b.username) in InMemoryStore, ORDER BY username ASC under
\* the collation coll in PgStore.
username_rank(st, coll, name) ==
    IF st = "InMemoryStore" \/ coll = "C"
    THEN CHOOSE i \in 1 .. Len(BoardNames) : BoardNames[i] = name
    ELSE CASE name = "adam" -> 1
           [] name = "bob" -> 2
           [] name = "Zed" -> 3

\* Row a may stand before row b: xp descending, then correct_votes
\* descending, then username ascending.
in_order(st, coll, a, b) ==
    \/ a.xp > b.xp
    \/ /\ a.xp = b.xp
       /\ \/ a.correct_votes > b.correct_votes
          \/ /\ a.correct_votes = b.correct_votes
             /\ username_rank(st, coll, a.username)
                    <= username_rank(st, coll, b.username)

Max(a, b) == IF a >= b THEN a ELSE b

\* What leaderboard(limit) can return for the rows stats: the identities in
\* a sorted order (rows that compare equal in either order), cut to
\* limit.max(1).
leaderboard(st, coll, stats, limit) ==
    {Take(q, Max(limit, 1)) :
        q \in {o \in Orders(DOMAIN stats) :
                  \A i \in 1 .. Len(o) - 1 :
                      in_order(st, coll, stats[o[i]], stats[o[i + 1]])}}

\* Three registered users, each with no vote yet, one wrong vote or one
\* right vote counted.
InitBoard ==
    /\ store \in Stores
    /\ now = 0
    /\ polls = EmptyMap
    /\ poll_members = EmptyMap
    /\ members = {derive_identity_secret(BoardNames[i]) : i \in 1 .. Len(BoardNames)}
    /\ \E votes_of \in [members -> {<<0, 0>>, <<1, 0>>, <<1, 1>>}] :
          user_stats = [id \in members |->
              LET xp == XP_CORRECT * votes_of[id][2]
                          + XP_PARTICIPATION * (votes_of[id][1] - votes_of[id][2])
              IN [ZeroStats(id[2]) EXCEPT !.xp = xp,
                                          !.total_votes = votes_of[id][1],
                                          !.correct_votes = votes_of[id][2],
                                          !.tier = tier_for_xp(xp)]]
    /\ poll_secrets = {}
    /\ commits = <<>>
    /\ commit_seq = 0
    /\ synced_commits = {}
    /\ votes = <<>>
    /\ vote_nullifiers = {}
    /\ poll_seq = 0
    /\ req = [s \in Slots |-> IdleReq]
    /\ sync = IdleSync
    /\ runs = <<>>
    /\ indexer = IdleIndexer

\* store.leaderboard(limit): the slot keeps the limit and the rows returned.
Leaderboard(s, limit) ==
    /\ Accepts(s)
    /\ \E coll \in Collations :
        \E out \in leaderboard(store, coll, user_stats, limit) :
          req' = [req EXCEPT ![s] =
                     [IdleReq EXCEPT !.op = "leaderboard", !.pc = "done",
                                     !.result = "ok", !.choice = limit,
                                     !.body = out]]
    /\ UNCHANGED <<store, now, polls, poll_members, members, poll_secrets,
                   commits, commit_seq, synced_commits, votes, vote_nullifiers,
                   user_stats, poll_seq, tickVars, indexer>>

NextBoard == \E s \in ScoreSlots, limit \in 0 .. Len(BoardNames) + 1 : Leaderboard(s, limit)

SpecBoard == InitBoard /\ [][NextBoard]_vars

\* C22: the rows a leaderboard request was answered with are the one list
\* either store returns for these stats and this limit: sorted by xp
\* descending, correct_votes descending, username ascending and cut to
\* max(limit, 1).
StoresAgreeOnLeaderboard ==
    \A s \in Slots :
        (req[s].op = "leaderboard" /\ req[s].pc = "done")
            => \A st \in Stores, coll \in Collations :
                  leaderboard(st, coll, user_stats, req[s].choice) = {req[s].body}

\* ------------------------------------- the indexer on a poll with commits
\* One poll of alice after its reveal phase, on which alice and bob have
\* each committed or not; then the indexer is fed logs.
InitChain ==
    /\ store \in Stores
    /\ now = MaxTime
    /\ LET ids == {derive_identity_secret(u) : u \in ScoreUsers}
           p == FirstPollId(store)
       IN /\ polls = Put(EmptyMap, p, CreatedPoll(1, 2, "alice", ids))
          /\ poll_members = Put(EmptyMap, p, ids)
          /\ members = ids
          /\ user_stats = [id \in ids |-> ZeroStats(id[2])]
          /\ poll_seq = p
    /\ \E ch \in [1 .. Len(ScoreUserSeq) -> -1 .. NUM_OPTIONS - 1] :
          commits = CommitsFrom(ch, 1, <<>>)
    /\ poll_secrets = {IssuedSecret(commits[k].poll_id, commits[k].identity_secret) :
                          k \in 1 .. Len(commits)}
    /\ commit_seq = Len(commits)
    /\ synced_commits = {}
    /\ votes = <<>>
    /\ vote_nullifiers = {}
    /\ req = [s \in Slots |-> IdleReq]
    /\ sync = IdleSync
    /\ runs = <<>>
    /\ indexer = IdleIndexer

\* The logs of the poll's own ledger events, whose timestamps are the
\* poll's, among logs with any poll id.
NextChain ==
    \/ \E p \in LogPollIds, t \in PollTimes :
          HandlePollCreated(p, U256(TRUE, t[1]), U256(TRUE, t[2]))
    \/ \E p \in LogPollIds, n \in Nullifiers, c \in Options :
          HandleVoteRevealed(p, n, c)
    \/ \E p \in LogPollIds, c \in Options : HandlePollResolved(p, c)

SpecChain == InitChain /\ [][NextChain]_vars

\* C23: for a poll the store holds (a poll-created log has stored it, so
\* its id fits 64 bits), handling a vote-revealed log leaves a Vote for the
\* log's nullifier, and handling a poll-resolved log leaves the poll resolved
\* with the log's correct option, the votes as they were and every
\* Commitment of the poll scored as an API resolve scores it.
ChainLogsResolvePoll ==
    [][\A p \in DOMAIN polls :
          /\ \A n \in Nullifiers, c \in Options :
                HandleVoteRevealed(U256(TRUE, p), n, c)
                    => \E i \in 1 .. Len(votes') :
                          votes'[i].poll_id = p /\ votes'[i].nullifier = n
          /\ \A c \in Options :
                HandlePollResolved(U256(TRUE, p), c)
                    => /\ p \in DOMAIN polls'
                       /\ polls'[p].resolved
                       /\ polls'[p].correct_option = Some(c)
                       /\ votes' = votes
                       /\ Scored(p, c)]_vars

\* The three logs have been handled in turn on the in-memory store: the
\* record is the one the poll-created log left (no owner), a Vote is stored,
\* the poll is resolved with option 1, and alice, who committed 1, and bob,
\* who committed 0, are scored.
ChainLogsResolvePollWitness ==
    \E p \in DOMAIN polls :
        /\ store = "InMemoryStore"
        /\ polls[p].owner = ""
        /\ has_vote(p, "n1")
        /\ polls[p].resolved
        /\ polls[p].correct_option = Some(1)
        /\ \E i, j \in 1 .. Len(commits) :
              /\ commits[i].poll_id = p /\ commits[j].poll_id = p
              /\ commits[i].identity_secret = derive_identity_secret("alice")
              /\ commits[j].identity_secret = derive_identity_secret("bob")
              /\ commits[i].choice = 1 /\ commits[j].choice = 0
        /\ user_stats[derive_identity_secret("alice")].xp = XP_CORRECT
        /\ user_stats[derive_identity_secret("bob")].xp = XP_PARTICIPATION
        /\ indexer.pc = "running"

\* C25: every commitment marked onchain_submitted was an item of a
\* submission call for its own poll that returned success, and a submission
\* that fails marks nothing.
SyncedOnlyAfterSuccess ==
    /\ [](\A id \in synced_commits :
            \E i \in 1 .. Len(commits) :
                /\ commits[i].id = id
                /\ \E k \in 1 .. Len(runs) :
                      \E j \in 1 .. Len(runs[k].calls) :
                          /\ runs[k].calls[j].ok
                          /\ runs[k].calls[j].poll_id = commits[i].poll_id
                          /\ id \in SeqToSet(runs[k].calls[j].ids))
    /\ [][SyncSubmit("err") => synced_commits' = synced_commits]_vars

\* A tick has just had its first call, for a poll with 21 pending
\* commitments, succeed and its second call, for the one left over, fail:
\* the 20 of the first batch are marked and the one of the failed batch is
\* not.
SyncedOnlyAfterSuccessWitness ==
    /\ Len(runs) = 1
    /\ Len(runs[1].calls) = 2
    /\ runs[1].calls[1].ok
    /\ ~runs[1].calls[2].ok
    /\ runs[1].calls[2].poll_id = runs[1].calls[1].poll_id
    /\ synced_commits = SeqToSet(runs[1].calls[1].ids)
    /\ Cardinality(synced_commits) = REVEAL_BATCH_SIZE
    /\ SeqToSet(runs[1].calls[2].ids) \cap synced_commits = {}
    /\ runs[1].calls[2].ids # <<>>

\* C26: the step that ends a tick leaves every poll whose commit phase has
\* ended and that has no unsynced commitment marked commit_sync_completed,
\* a poll without any commitment and a poll past its reveal window included.
TickMarksDrainedPolls ==
    [][SyncFinish =>
          \A p \in DOMAIN polls :
              (polls[p].commit_phase_end <= now /\ ~poll_has_pending_commits(p))
                  => polls'[p].commit_sync_completed]_vars

\* A tick that began after the reveal window of a poll without commitments
\* had closed, and made no submission for it, has ended and the poll is
\* marked; the other poll has commitments.
TickMarksDrainedPollsWitness ==
    /\ sync.pc = "idle"
    /\ Len(runs) = 1
    /\ \E p, q \in DOMAIN polls :
          /\ CommitsOf(p) = <<>>
          /\ CommitsOf(q) # <<>>
          /\ runs[1].now >= polls[p].reveal_phase_end
          /\ runs[1].calls = <<>>
          /\ polls[p].commit_sync_completed
          /\ polls[p].reveal_tx_hash = ""

\* C27: the rows a tick queries are at most SYNC_QUERY_LIMIT commitments,
\* each of a poll in its reveal window that is not marked
\* commit_sync_completed, none of them onchain_submitted, and no such
\* commitment is left out while the limit is not reached, in either store.
QueryTakesOpenPollsOnly ==
    [][SyncStart =>
          LET rows == runs'[Len(runs')].pending
              wanted(c) == /\ InWindow(c.poll_id, now)
                           /\ ~polls[c.poll_id].commit_sync_completed
                           /\ c.id \notin synced_commits
          IN /\ Len(rows) <= SYNC_QUERY_LIMIT
             /\ \A i \in 1 .. Len(rows) :
                   \E k \in 1 .. Len(commits) :
                       commits[k].id = rows[i].id /\ wanted(commits[k])
             /\ Len(rows) < SYNC_QUERY_LIMIT
                   => \A k \in 1 .. Len(commits) :
                         wanted(commits[k])
                             => \E i \in 1 .. Len(rows) : rows[i].id = commits[k].id]_vars

\* ------------------------------------------- ticks without end, unlogged
\* The sizes of the backlog followed: none, one batch and one more, more
\* than one query returns.
LiveSizes == {0, 1, REVEAL_BATCH_SIZE + 1, SYNC_QUERY_LIMIT + 1}

\* One poll in its reveal window, where the clock stays, with n unsynced
\* commitments.
InitLive ==
    /\ store \in Stores
    /\ now = 1
    /\ \E n \in LiveSizes :
        LET ids == {derive_identity_secret(i) : i \in 1 .. n}
            p == FirstPollId(store)
        IN /\ polls = Put(EmptyMap, p, CreatedPoll(1, 2, "alice", ids))
           /\ poll_members = Put(EmptyMap, p, ids)
           /\ members = ids
           /\ poll_secrets = {IssuedSecret(p, id) : id \in ids}
           /\ commits = [i \in 1 .. n |->
                            [id |-> i - 1, poll_id |-> p,
                             identity_secret |-> derive_identity_secret(i),
                             choice |-> i % NUM_OPTIONS]]
           /\ commit_seq = n
           /\ user_stats = [id \in ids |-> ZeroStats(id[2])]
           /\ poll_seq = p
    /\ synced_commits = {}
    /\ votes = <<>>
    /\ vote_nullifiers = {}
    /\ req = [s \in Slots |-> IdleReq]
    /\ sync = IdleSync
    /\ runs = <<>>
    /\ indexer = IdleIndexer

\* SyncStart of any tick of the timer loop.
LiveStart ==
    /\ sync.pc = "idle"
    /\ LET grouped == GroupByPoll(commits_to_sync(now, SYNC_QUERY_LIMIT))
       IN sync' = [sync EXCEPT !.pc = IF DOMAIN grouped = {} THEN "final" ELSE "poll",
                               !.by_poll = grouped,
                               !.items = <<>>]
    /\ UNCHANGED <<store, now, polls, poll_members, members, poll_secrets,
                   commits, commit_seq, synced_commits, votes, vote_nullifiers,
                   user_stats, poll_seq, req, runs, indexer>>

\* SyncSubmit of any tick.
LiveSubmit(outcome) ==
    /\ sync.pc = "batch"
    /\ sync.items # <<>>
    /\ LET chunk == Chunk(sync.items)
           rest == Drop(sync.items, Len(chunk))
           ok == outcome # "err"
       IN /\ sync' = [sync EXCEPT !.items = rest,
                                  !.pc = IF ok /\ rest # <<>> THEN "batch" ELSE "after"]
          /\ synced_commits' = IF ok
                               THEN synced_commits \cup {chunk[i].id : i \in 1 .. Len(chunk)}
                               ELSE synced_commits
          /\ polls' = IF outcome = "ok_tx"
                      THEN set_reveal_tx_hash(polls, sync.poll_id, "0xtx")
                      ELSE polls
    /\ UNCHANGED <<store, now, poll_members, members, poll_secrets, commits,
                   commit_seq, votes, vote_nullifiers, user_stats, poll_seq, req,
                   runs, indexer>>

\* SyncFinish of any tick.
LiveFinish ==
    /\ sync.pc = "final"
    /\ polls' = mark_polls_without_pending_commits(polls, synced_commits, now)
    /\ sync' = [sync EXCEPT !.pc = "idle"]
    /\ UNCHANGED <<store, now, poll_members, members, poll_secrets, commits,
                   commit_seq, synced_commits, votes, vote_nullifiers,
                   user_stats, poll_seq, req, runs, indexer>>

LiveSucceeds == LiveSubmit("ok") \/ LiveSubmit("ok_tx")

NextLive ==
    \/ LiveStart
    \/ SyncNextPoll
    \/ LiveSucceeds
    \/ LiveSubmit("err")
    \/ SyncAfterPoll
    \/ LiveFinish

\* The timer keeps ticking and a tick keeps taking its steps; a submission,
\* tried again and again, succeeds in the end.
SpecLive ==
    /\ InitLive
    /\ [][NextLive]_vars
    /\ WF_vars(LiveStart)
    /\ WF_vars(SyncNextPoll)
    /\ WF_vars(SyncAfterPoll)
    /\ WF_vars(LiveFinish)
    /\ WF_vars(LiveSubmit("ok") \/ LiveSubmit("ok_tx") \/ LiveSubmit("err"))
    /\ SF_vars(LiveSucceeds)

\* C28: with ticks that keep running and submissions that succeed in the
\* end, every commitment is eventually marked onchain_submitted and every
\* poll commit_sync_completed.
SyncConverges ==
    <>(/\ \A i \in 1 .. Len(commits) : commits[i].id \in synced_commits
       /\ \A p \in DOMAIN polls : polls[p].commit_sync_completed)

\* ------------------------------------------------ spawn_reveal_sync alone
\* The period of the timer, in clock steps.
TickInterval == 1

StartupSizes == {1, REVEAL_BATCH_SIZE + 1}

\* The process starts at clock reading 0 on a store that holds one poll in
\* its reveal window with n unsynced commitments.
InitStartup ==
    /\ store \in Stores
    /\ now = 0
    /\ \E n \in StartupSizes :
        LET ids == {derive_identity_secret(i) : i \in 1 .. n}
            p == FirstPollId(store)
        IN /\ polls = Put(EmptyMap, p, CreatedPoll(0, 2, "alice", ids))
           /\ poll_members = Put(EmptyMap, p, ids)
           /\ members = ids
           /\ poll_secrets = {IssuedSecret(p, id) : id \in ids}
           /\ commits = [i \in 1 .. n |->
                            [id |-> i - 1, poll_id |-> p,
                             identity_secret |-> derive_identity_secret(i),
                             choice |-> i % NUM_OPTIONS]]
           /\ commit_seq = n
           /\ user_stats = [id \in ids |-> ZeroStats(id[2])]
           /\ poll_seq = p
    /\ synced_commits = {}
    /\ votes = <<>>
    /\ vote_nullifiers = {}
    /\ req = [s \in Slots |-> IdleReq]
    /\ sync = IdleSync
    /\ runs = <<>>
    /\ indexer = IdleIndexer

\* The timer task: ticker.tick().await returns once the clock has reached
\* the deadline, which moves on by one period, and sync_reveals_once starts
\* as in SyncStart.
TickerStart ==
    /\ sync.pc = "idle"
    /\ sync.ticks < MaxTicks
    /\ now >= sync.deadline
    /\ LET pending == commits_to_sync(now, SYNC_QUERY_LIMIT)
           grouped == GroupByPoll(pending)
       IN /\ sync' = [sync EXCEPT !.pc = IF DOMAIN grouped = {} THEN "final" ELSE "poll",
                                  !.by_poll = grouped,
                                  !.items = <<>>,
                                  !.deadline = @ + TickInterval]
          /\ runs' = Append(runs, [now |-> now, pending |-> SyncRows(pending),
                                   calls |-> <<>>])
    /\ UNCHANGED <<store, now, polls, poll_members, members, poll_secrets,
                   commits, commit_seq, synced_commits, votes, vote_nullifiers,
                   user_stats, poll_seq, req, indexer>>

\* The startup task: the steps of its one sync_reveals_once, as those of the
\* timer task's.
StartupStart ==
    /\ sync.startup.pc = "idle"
    /\ LET pending == commits_to_sync(now, SYNC_QUERY_LIMIT)
           grouped == GroupByPoll(pending)
       IN sync' = [sync EXCEPT !.startup =
                     [@ EXCEPT !.pc = IF DOMAIN grouped = {} THEN "final" ELSE "poll",
                               !.by_poll = grouped,
                               !.pending = SyncRows(pending)]]
    /\ UNCHANGED <<store, now, polls, poll_members, members, poll_secrets,
                   commits, commit_seq, synced_commits, votes, vote_nullifiers,
                   user_stats, poll_seq, req, runs, indexer>>

StartupNextPoll ==
    /\ sync.startup.pc = "poll"
    /\ \E p \in DOMAIN sync.startup.by_poll :
          sync' = [sync EXCEPT !.startup =
                     [@ EXCEPT !.pc = "batch", !.poll_id = p,
                               !.items = sync.startup.by_poll[p],
                               !.by_poll = Without(sync.startup.by_poll, p)]]
    /\ UNCHANGED <<store, now, polls, poll_members, members, poll_secrets,
                   commits, commit_seq, synced_commits, votes, vote_nullifiers,
                   user_stats, poll_seq, req, runs, indexer>>

StartupSubmit(outcome) ==
    /\ sync.startup.pc = "batch"
    /\ sync.startup.items # <<>>
    /\ LET t == sync.startup
           chunk == Chunk(t.items)
           rest == Drop(t.items, Len(chunk))
           ok == outcome # "err"
       IN /\ sync' = [sync EXCEPT !.startup =
                        [@ EXCEPT !.items = rest,
                                  !.pc = IF ok /\ rest # <<>> THEN "batch" ELSE "after",
                                  !.calls = Append(@, [poll_id |-> t.poll_id,
                                                       ids |-> CommitIds(chunk),
                                                       ok |-> ok,
                                                       tx |-> outcome = "ok_tx"])]]
          /\ synced_commits' = IF ok
                               THEN synced_commits \cup {chunk[i].id : i \in 1 .. Len(chunk)}
                               ELSE synced_commits
          /\ polls' = IF outcome = "ok_tx"
                      THEN set_reveal_tx_hash(polls, t.poll_id, "0xtx")
                      ELSE polls
    /\ UNCHANGED <<store, now, poll_members, members, poll_secrets, commits,
                   commit_seq, votes, vote_nullifiers, user_stats, poll_seq, req,
                   runs, indexer>>

StartupAfterPoll ==
    /\ sync.startup.pc = "after"
    /\ polls' = IF ~poll_has_pending_commits(sync.startup.poll_id)
                THEN mark_poll_sync_complete(polls, sync.startup.poll_id)
                ELSE polls
    /\ sync' = [sync EXCEPT !.startup =
                  [@ EXCEPT !.pc = IF DOMAIN sync.startup.by_poll = {}
                                   THEN "final" ELSE "poll",
                            !.items = <<>>]]
    /\ UNCHANGED <<store, now, poll_members, members, poll_secrets, commits,
                   commit_seq, synced_commits, votes, vote_nullifiers,
                   user_stats, poll_seq, req, runs, indexer>>

\* The task ends with its run.
StartupFinish ==
    /\ sync.startup.pc = "final"
    /\ polls' = mark_polls_without_pending_commits(polls, synced_commits, now)
    /\ sync' = [sync EXCEPT !.startup = [@ EXCEPT !.pc = "done"]]
    /\ UNCHANGED <<store, now, poll_members, members, poll_secrets, commits,
                   commit_seq, synced_commits, votes, vote_nullifiers,
                   user_stats, poll_seq, req, runs, indexer>>

NextStartup ==
    \/ AdvanceClock(MaxTime)
    \/ TickerStart
    \/ SyncNextPoll
    \/ \E outcome \in {"ok", "ok_tx", "err"} : SyncSubmit(outcome)
    \/ SyncAfterPoll
    \/ SyncFinish
    \/ StartupStart
    \/ StartupNextPoll
    \/ \E outcome \in {"ok", "ok_tx", "err"} : StartupSubmit(outcome)
    \/ StartupAfterPoll
    \/ StartupFinish

SpecStartup == InitStartup /\ [][NextStartup]_vars

\* C29: the run at startup is the only tick before one full interval has
\* passed: the k-th tick of the timer starts no earlier than k intervals
\* after startup, the timer's tick and the startup run are never under way
\* together, and no commitment is submitted by both.
StartupRunsOnce ==
    /\ \A k \in 1 .. Len(runs) : runs[k].now >= k * TickInterval
    /\ ~(sync.pc # "idle" /\ sync.startup.pc \notin {"idle", "done"})
    /\ SeqToSet(CallIds(sync.startup.calls))
         \cap UNION {SeqToSet(CallIds(runs[k].calls)) : k \in 1 .. Len(runs)} = {}

\* ------------------------------------------- the timer loop, failing ticks
\* A loop that would stop at the first failed tick.
LoopEnds ==
    /\ sync.pc = "failed"
    /\ sync' = [sync EXCEPT !.pc = "ended"]
    /\ UNCHANGED <<store, now, polls, poll_members, members, poll_secrets,
                   commits, commit_seq, synced_commits, votes, vote_nullifiers,
                   user_stats, poll_seq, req, runs, indexer>>

\* commits_to_sync(...).await? returns the database's error: the tick is
\* over before it grouped anything.
TickQueryFails ==
    /\ sync.pc = "idle"
    /\ store = "PgStore"
    /\ sync' = [sync EXCEPT !.pc = "failed"]
    /\ UNCHANGED <<store, now, polls, poll_members, members, poll_secrets,
                   commits, commit_seq, synced_commits, votes, vote_nullifiers,
                   user_stats, poll_seq, req, runs, indexer>>

\* A bookkeeping write returns the database's error and `?` ends the tick:
\* after a submission that succeeded, mark_commit_synced on the (j+1)-th
\* commitment of the chunk, the first j being marked; after a poll's
\* chunks, poll_has_pending_commits or mark_poll_sync_complete; at the end,
\* mark_polls_without_pending_commits.
TickWriteFails(j) ==
    /\ store = "PgStore"
    /\ \/ /\ sync.pc = "batch"
          /\ sync.items # <<>>
          /\ j < Len(Chunk(sync.items))
          /\ synced_commits' = synced_commits \cup {Chunk(sync.items)[i].id : i \in 1 .. j}
       \/ /\ sync.pc \in {"after", "final"}
          /\ j = 0
          /\ synced_commits' = synced_commits
    /\ sync' = [sync EXCEPT !.pc = "failed", !.by_poll = EmptyMap, !.items = <<>>]
    /\ UNCHANGED <<store, now, polls, poll_members, members, poll_secrets,
                   commits, commit_seq, votes, vote_nullifiers, user_stats,
                   poll_seq, req, runs, indexer>>

\* The loop's `if let Err(err)` arm: warn!, and the loop goes back to
\* ticker.tick().await.
LoopAgain ==
    /\ sync.pc = "failed"
    /\ sync' = [sync EXCEPT !.pc = "idle"]
    /\ UNCHANGED <<store, now, polls, poll_members, members, poll_secrets,
                   commits, commit_seq, synced_commits, votes, vote_nullifiers,
                   user_stats, poll_seq, req, runs, indexer>>

\* The poll of InitLive with at most one commitment more than a batch takes.
InitLoop == InitLive /\ Len(commits) <= REVEAL_BATCH_SIZE + 1

NextLoop ==
    \/ LiveStart
    \/ TickQueryFails
    \/ SyncNextPoll
    \/ \E outcome \in {"ok", "ok_tx", "err"} : LiveSubmit(outcome)
    \/ \E j \in 0 .. REVEAL_BATCH_SIZE - 1 : TickWriteFails(j)
    \/ SyncAfterPoll
    \/ LiveFinish
    \/ LoopAgain

\* The timer fires again and again, and a task that can take a step takes
\* one; whether the database answers is left open.
SpecLoop ==
    /\ InitLoop
    /\ [][NextLoop]_vars
    /\ WF_vars(LiveStart \/ TickQueryFails)
    /\ WF_vars(SyncNextPoll)
    /\ WF_vars(\E outcome \in {"ok", "ok_tx", "err"} : LiveSubmit(outcome))
    /\ WF_vars(SyncAfterPoll)
    /\ WF_vars(LiveFinish)
    /\ WF_vars(LoopAgain)

\* C30: a tick that failed at the pending query or at a bookkeeping write
\* leaves the loop running: the loop waits for the timer again and the next
\* tick starts, and no commitment marked synced is ever unmarked.
FailedTickKeepsLoop ==
    /\ (sync.pc = "failed") ~> (sync.pc = "idle")
    /\ (sync.pc = "idle") ~> (sync.pc # "idle")
    /\ [][synced_commits \subseteq synced_commits']_vars

\* A tick is under way after a tick that failed half way through marking a
\* chunk, and the one commitment that tick marked is still marked.
FailedTickKeepsLoopWitness ==
    /\ sync.pc = "batch"
    /\ Len(commits) = REVEAL_BATCH_SIZE + 1
    /\ Cardinality(synced_commits) = 1

\* ------------------------------------------------ indexer.rs: handle_log
\* A log, by the event shapes whose decode_log accepts it and the fields
\* the decoded event carries.
Logs ==
    [decodes : SUBSET {"PollCreated", "VoteRevealed", "PollResolved"},
     poll_id : LogPollIds, stamps : PollTimes, nullifier : Nullifiers,
     choice : Options]

\* A handle_log that tries poll-resolved first.
handle_log_resolved_first(log) ==
    IF "PollResolved" \in log.decodes
    THEN HandlePollResolved(log.poll_id, log.choice)
    ELSE IF "VoteRevealed" \in log.decodes
    THEN HandleVoteRevealed(log.poll_id, log.nullifier, log.choice)
    ELSE IF "PollCreated" \in log.decodes
    THEN HandlePollCreated(log.poll_id, U256(TRUE, log.stamps[1]),
                           U256(TRUE, log.stamps[2]))
    ELSE HandleOtherLog

\* handle_log: three `if let Ok(ev) = ...::decode_log(&raw)` in turn, each
\* ending in `return Ok(())`, then Ok(()).
handle_log(log) ==
    IF "PollCreated" \in log.decodes
    THEN HandlePollCreated(log.poll_id, U256(TRUE, log.stamps[1]),
                           U256(TRUE, log.stamps[2]))
    ELSE IF "VoteRevealed" \in log.decodes
    THEN HandleVoteRevealed(log.poll_id, log.nullifier, log.choice)
    ELSE IF "PollResolved" \in log.decodes
    THEN HandlePollResolved(log.poll_id, log.choice)
    ELSE HandleOtherLog

\* The poll of InitChain on which alice and bob have both committed.
InitLog == InitChain /\ Len(commits) = Len(ScoreUserSeq)

NextLog == \E log \in Logs : handle_log(log)

SpecLog == InitLog /\ [][NextLog]_vars

\* C31: handling a log is the step of the first shape, in the order
\* poll-created, vote-revealed, poll-resolved, that decodes it, and of no
\* other: a log poll-created decodes leaves votes and scores alone, a log
\* vote-revealed decodes first leaves polls and scores alone, and a log no
\* shape decodes changes nothing and counts no error.
FirstDecodingShapeApplies ==
    [][\A log \in Logs :
          handle_log(log) =>
            IF "PollCreated" \in log.decodes
            THEN /\ HandlePollCreated(log.poll_id, U256(TRUE, log.stamps[1]),
                                      U256(TRUE, log.stamps[2]))
                 /\ votes' = votes /\ user_stats' = user_stats
            ELSE IF "VoteRevealed" \in log.decodes
            THEN /\ HandleVoteRevealed(log.poll_id, log.nullifier, log.choice)
                 /\ polls' = polls /\ user_stats' = user_stats
            ELSE IF "PollResolved" \in log.decodes
            THEN /\ HandlePollResolved(log.poll_id, log.choice)
                 /\ votes' = votes
            ELSE vars' = vars]_vars

\* A log that vote-revealed and poll-resolved both decode has been handled:
\* the vote is stored, the poll is not resolved and nobody is scored.
FirstDecodingShapeAppliesWitness ==
    \E p \in DOMAIN polls :
        /\ has_vote(p, "n1")
        /\ ~polls[p].resolved
        /\ polls[p].owner = "alice"
        /\ \A id \in DOMAIN user_stats : user_stats[id].total_votes = 0
        /\ Len(commits) = Len(ScoreUserSeq)

\* C32: a poll-created log for a poll the store already holds leaves the
\* poll's resolved, correct_option, vote_counts, reveal_tx_hash,
\* commit_sync_completed and owner, and the commitments, the votes and the
\* member snapshots, as they were.
ReplayedPollCreatedIsHarmless ==
    [][\A p \in DOMAIN polls : \A t \in PollTimes :
          HandlePollCreated(U256(TRUE, p), U256(TRUE, t[1]), U256(TRUE, t[2]))
            => /\ p \in DOMAIN polls'
               /\ polls'[p].resolved = polls[p].resolved
               /\ polls'[p].correct_option = polls[p].correct_option
               /\ polls'[p].vote_counts = polls[p].vote_counts
               /\ polls'[p].reveal_tx_hash = polls[p].reveal_tx_hash
               /\ polls'[p].commit_sync_completed = polls[p].commit_sync_completed
               /\ polls'[p].owner = polls[p].owner
               /\ commits' = commits
               /\ votes' = votes
               /\ poll_members' = poll_members]_vars

\* C33: vote-revealed logs leave at most one Vote per (poll_id, nullifier),
\* and the nullifier of every stored Vote is one record_vote finds used, so
\* that an API reveal with it is rejected.
ChainVoteIsIdempotentUpsert ==
    /\ \A i, j \in 1 .. Len(votes) :
          (votes[i].poll_id = votes[j].poll_id /\ votes[i].nullifier = votes[j].nullifier)
              => i = j
    /\ \A i \in 1 .. Len(votes) : nullifier_used(votes[i].poll_id, votes[i].nullifier)

\* ------------------------------------------------ record_commit alone
\* One poll of alice in its commit phase whose snapshot holds alice only;
\* bob registered after it was created.
InitCommit ==
    /\ store \in Stores
    /\ now = 0
    /\ LET ids == {derive_identity_secret(u) : u \in ScoreUsers}
           snapshot == {derive_identity_secret("alice")}
           p == FirstPollId(store)
       IN /\ polls = Put(EmptyMap, p, CreatedPoll(1, 2, "alice", snapshot))
          /\ poll_members = Put(EmptyMap, p, snapshot)
          /\ members = ids
          /\ user_stats = [id \in ids |-> ZeroStats(id[2])]
          /\ poll_seq = p
    /\ poll_secrets = {}
    /\ commits = <<>>
    /\ commit_seq = 0
    /\ synced_commits = {}
    /\ votes = <<>>
    /\ vote_nullifiers = {}
    /\ req = [s \in Slots |-> IdleReq]
    /\ sync = IdleSync
    /\ runs = <<>>
    /\ indexer = IdleIndexer

NextCommit ==
    \/ AdvanceClock(MaxTime)
    \/ \E u \in ScoreUsers, p \in PollIds : FetchSecret(u, p)
    \/ \E s \in Slots, u \in ScoreUsers, p \in PollIds, c \in Choices, sec \in BOOLEAN :
          CommitBegin(s, u, p, c, sec)
    \/ \E s \in Slots : CommitStore(s)
    \/ \E s \in Slots : CommitInsert(s)

SpecCommit == InitCommit /\ [][NextCommit]_vars

\* C34: a record-commit request for a stored poll that does not carry the
\* secret the server issued for (poll, identity), or whose identity is not
\* in the poll's snapshot, or whose choice is not below the number of
\* options, is answered with Validation at once and stores nothing; and
\* every stored Commitment is of a member of its poll's snapshot with a
\* choice below the number of options.
BadCommitIsValidation ==
    /\ [][\A s \in Slots, u \in ScoreUsers, p \in DOMAIN polls, c \in Choices,
            sec \in BOOLEAN :
            (/\ CommitBegin(s, u, p, c, sec)
             /\ \/ ~sec
                \/ ~\E r \in poll_secrets :
                        r.poll_id = p /\ r.identity_secret = derive_identity_secret(u)
                \/ derive_identity_secret(u) \notin poll_members[p]
                \/ c >= polls[p].options)
              => /\ req'[s].pc = "done"
                 /\ req'[s].result = "validation"
                 /\ commits' = commits]_vars
    /\ [](\A i \in 1 .. Len(commits) :
            /\ commits[i].poll_id \in DOMAIN polls
            /\ commits[i].identity_secret \in poll_members[commits[i].poll_id]
            /\ commits[i].choice < polls[commits[i].poll_id].options)

\* Alice's Commitment is stored and bob, who is not in the snapshot, has
\* been answered Validation after the server minted his secret: his request
\* was in the commit phase with a choice in range.
BadCommitIsValidationWitness ==
    \E p \in DOMAIN polls, s \in Slots :
        /\ has_commit(p, derive_identity_secret("alice"))
        /\ ~has_commit(p, derive_identity_secret("bob"))
        /\ has_secret(poll_secrets, p, derive_identity_secret("bob"))
        /\ req[s].op = "commit" /\ req[s].user = "bob"
        /\ req[s].pc = "done" /\ req[s].result = "validation"

\* C35: every stored poll has at least 2 options and its commit_phase_end
\* strictly before its reveal_phase_end, whichever path stored it.
StoredPollsWellFormed ==
    \A p \in DOMAIN polls :
        /\ polls[p].options >= 2
        /\ polls[p].commit_phase_end < polls[p].reveal_phase_end

\* ------------------------------- ticks, logs, resolve and backfill together
\* The poll of InitLog when its reveal phase begins.
InitStored ==
    /\ store \in Stores
    /\ now = 1
    /\ LET ids == {derive_identity_secret(u) : u \in ScoreUsers}
           p == FirstPollId(store)
       IN /\ polls = Put(EmptyMap, p, CreatedPoll(1, 2, "alice", ids))
          /\ poll_members = Put(EmptyMap, p, ids)
          /\ members = ids
          /\ user_stats = [id \in ids |-> ZeroStats(id[2])]
          /\ poll_seq = p
    /\ \E ch \in [1 .. Len(ScoreUserSeq) -> Options] :
          commits = CommitsFrom(ch, 1, <<>>)
    /\ poll_secrets = {IssuedSecret(commits[k].poll_id, commits[k].identity_secret) :
                          k \in 1 .. Len(commits)}
    /\ commit_seq = Len(commits)
    /\ synced_commits = {}
    /\ votes = <<>>
    /\ vote_nullifiers = {}
    /\ req = [s \in Slots |-> IdleReq]
    /\ sync = IdleSync
    /\ runs = <<>>
    /\ indexer = IdleIndexer

NextStored ==
    \/ AdvanceClock(MaxTime)
    \/ LiveStart
    \/ SyncNextPoll
    \/ \E outcome \in {"ok", "ok_tx", "err"} : LiveSubmit(outcome)
    \/ SyncAfterPoll
    \/ LiveFinish
    \/ \E p \in PollIds, t \in PollTimes : IndexPollCreated(p, t[1], t[2])
    \/ \E p \in PollIds, n \in Nullifiers, c \in Options : IndexVoteRevealed(p, n, c)
    \/ \E p \in PollIds, c \in Options : ScoreIndexPollResolved(p, c)
    \/ \E s \in ScoreSlots, u \in Users, p \in PollIds, c \in Choices :
          ResolveBegin(s, u, p, c)
    \/ \E s \in ScoreSlots : ScoreResolveApply(s)
    \/ Backfill

SpecStored == InitStored /\ [][NextStored]_vars

\* C36: no step of a tick, of the indexer, of a resolve or of a backfill
\* removes or alters a stored Commitment, and a Commitment marked
\* onchain_submitted stays marked.
CommitmentsAreFrozen ==
    [][/\ Len(commits') >= Len(commits)
       /\ \A i \in 1 .. Len(commits) : commits'[i] = commits[i]
       /\ synced_commits \subseteq synced_commits']_vars

\* Both Commitments are marked onchain_submitted, the poll has been created
\* again by a log, resolved, and scored: alice has her participation or
\* better.
CommitmentsAreFrozenWitness ==
    \E p \in DOMAIN polls :
        /\ Len(commits) = Len(ScoreUserSeq)
        /\ \A i \in 1 .. Len(commits) : commits[i].id \in synced_commits
        /\ polls[p].resolved
        /\ polls[p].owner = ""
        /\ user_stats[derive_identity_secret("alice")].total_votes >= 1

\* C37: a poll marked commit_sync_completed has no Commitment that is not
\* marked onchain_submitted.
CompletedPollIsDrained ==
    \A p \in DOMAIN polls :
        polls[p].commit_sync_completed
            => \A i \in 1 .. Len(commits) :
                  commits[i].poll_id = p => commits[i].id \in synced_commits

\* C38: create_poll stores its poll under an id no stored poll has: the
\* polls stored before are all still there, as they were, and there is one
\* poll more.
CreatePollTakesFreshId ==
    [][\A u \in Users, t \in PollTimes :
          CreatePoll(u, t[1], t[2])
            => /\ \A p \in DOMAIN polls : p \in DOMAIN polls' /\ polls'[p] = polls[p]
               /\ Cardinality(DOMAIN polls') = Cardinality(DOMAIN polls) + 1]_vars

\* C39: the vote_counts a store returns for a poll count its stored Votes.
\* PgStore keeps the choice of a Vote: every choice indexes an option and
\* vote_counts[i] is the number of the poll's Votes with choice i.
\* InMemoryStore keeps no choice with a Vote: the counts add up to the
\* number of the poll's Votes.
VoteCountsMatchVotes ==
    \A p \in DOMAIN polls :
        LET mine == {k \in 1 .. Len(votes) : votes[k].poll_id = p}
            vc == vote_counts_of(p)
        IN IF store = "PgStore"
           THEN /\ \A k \in mine : votes[k].choice < polls[p].options
                /\ \A i \in 0 .. polls[p].options - 1 :
                      vc[i] = Cardinality({k \in mine : votes[k].choice = i})
           ELSE Cardinality(UNION {{<<i, k>> : k \in 1 .. vc[i]} : i \in DOMAIN vc})
                  = Cardinality(mine)

\* ------------------------------------- PgStore::bump_user_stats, by statement
MaxTierPolls == 3

TierPolls == FirstPollId(store) .. FirstPollId(store) + MaxTierPolls - 1

\* A store after the reveal phase of MaxTierPolls polls of alice, on each of
\* which alice, logged in before, has committed option 1.
InitTier ==
    /\ store \in Stores
    /\ now = MaxTime
    /\ LET id == derive_identity_secret("alice")
       IN /\ polls = [p \in TierPolls |-> CreatedPoll(1, 2, "alice", {id})]
          /\ poll_members = [p \in TierPolls |-> {id}]
          /\ members = {id}
          /\ user_stats = Put(EmptyMap, id, ZeroStats("alice"))
          /\ commits = [k \in 1 .. MaxTierPolls |->
                           [id |-> k - 1, poll_id |-> FirstPollId(store) + k - 1,
                            identity_secret |-> id, choice |-> 1]]
    /\ poll_secrets = {IssuedSecret(commits[k].poll_id, commits[k].identity_secret) :
                          k \in 1 .. Len(commits)}
    /\ commit_seq = Len(commits)
    /\ poll_seq = IF store = "PgStore" THEN MaxTierPolls ELSE 0
    /\ synced_commits = {}
    /\ votes = <<>>
    /\ vote_nullifiers = {}
    /\ req = [s \in Slots |-> IdleReq]
    /\ sync = IdleSync
    /\ runs = <<>>
    /\ indexer = IdleIndexer

\* The first statement of PgStore::bump_user_stats: UPDATE user_stats SET
\* xp = xp + $2, total_votes = total_votes + 1, correct_votes =
\* correct_votes + $3 ... RETURNING xp, tier.  The tier is not written.
update_xp(stats, id, correct) ==
    IF id \notin DOMAIN stats THEN stats
    ELSE [stats EXCEPT ![id].xp = @ + (IF correct THEN XP_CORRECT ELSE XP_PARTICIPATION),
                       ![id].total_votes = @ + 1,
                       ![id].correct_votes = @ + (IF correct THEN 1 ELSE 0)]

\* A PollResolved log of a poll with one Commitment, up to the end of the
\* first statement of the bump: resolve_poll_from_chain marks the poll and
\* apply_poll_results bumps the committer.  InMemoryStore bumps under one
\* write lock; PgStore has updated the row and holds the tier to write, if
\* it differs from the one the row returned.
ChainResolveBump(p, c) ==
    /\ indexer.pc = "running"
    /\ indexer.tier_write = None
    /\ p \in DOMAIN polls
    /\ Len(CommitsOf(p)) = 1
    /\ LET cm == CommitsOf(p)[1]
           id == cm.identity_secret
           after == update_xp(user_stats, id, cm.choice = c)
       IN /\ id \in DOMAIN user_stats
          /\ user_stats[id].total_votes < MaxTierPolls
          /\ polls' = resolve_poll_from_chain(polls, p, c)
          /\ IF store = "InMemoryStore"
             THEN /\ user_stats' = bump_user_stats(user_stats, id, cm.choice = c)
                  /\ indexer' = indexer
             ELSE /\ user_stats' = after
                  /\ indexer' = [indexer EXCEPT !.tier_write =
                                   IF tier_for_xp(after[id].xp) # user_stats[id].tier
                                   THEN Some([id |-> id, tier |-> tier_for_xp(after[id].xp)])
                                   ELSE None]
    /\ UNCHANGED <<store, now, poll_members, members, poll_secrets, commits,
                   commit_seq, synced_commits, votes, vote_nullifiers,
                   poll_seq, req, tickVars>>

\* The second statement: UPDATE user_stats SET tier = $2 WHERE
\* identity_secret = $1.
ChainResolveTier ==
    /\ indexer.tier_write # None
    /\ LET w == TheOption(indexer.tier_write)
       IN user_stats' = [user_stats EXCEPT ![w.id].tier = w.tier]
    /\ indexer' = [indexer EXCEPT !.tier_write = None]
    /\ UNCHANGED <<store, now, polls, poll_members, members, poll_secrets,
                   commits, commit_seq, synced_commits, votes, vote_nullifiers,
                   poll_seq, req, tickVars>>

NextTier ==
    \/ \E p \in TierPolls, c \in Options : ChainResolveBump(p, c)
    \/ ChainResolveTier

SpecTier == InitTier /\ [][NextTier]_vars

\* C40: every UserStats record has the tier of its xp, no more correct votes
\* than votes, and the xp its votes earn.
StatsAreConsistent ==
    \A id \in DOMAIN user_stats :
        LET st == user_stats[id]
        IN /\ st.tier = tier_for_xp(st.xp)
           /\ 0 <= st.correct_votes /\ st.correct_votes <= st.total_votes
           /\ st.xp = XP_CORRECT * st.correct_votes
                        + XP_PARTICIPATION * (st.total_votes - st.correct_votes)
====
